---------------------------- MODULE Spec2Model ----------------------------
(***************************************************************************)
(* Model of the ecopower-tarrifs tariff engine:                            *)
(*   domain/models.py                  MonthlyCostBreakdown                *)
(*   domain/tariff_calculator.py       EcopowerTariffCalculator, as Eco_  *)
(*   domain/fixed_tariff_calculator.py FixedTariffCalculator, as Fixed_   *)
(*   domain/timestamp_utils.py         floor_to_15_minutes                 *)
(*   services/*_calculation_service.py the two services, as EcoService_   *)
(*                                     and FixedService_                   *)
(*                                                                         *)
(* Numbers.  The code computes with Python floats.  The model computes     *)
(* with exact decimals: a float x is the integer x * Scale, Scale =        *)
(* 12 * 10^9, so that every product, the * 0.25 of a reading, the / 12 of  *)
(* the capacity tariff and the * 1.06 of the VAT are exact for the values  *)
(* the model draws.  TLC's integers are 32 bits wide, so the scaled        *)
(* integers are arbitrary-precision: a sign and base-10^4 limbs, least     *)
(* significant first.  Floating-point rounding is therefore outside that   *)
(* part of the model: its equalities are those of exact arithmetic.  The   *)
(* per-kWh rates are modelled in IEEE 754 binary64 as well, for the        *)
(* comparisons between them that rounding decides.  The one division of    *)
(* the code (total_cost / total_kwh_delivered) yields an exact quotient    *)
(* num/den, or "ZeroDivisionError" for a zero divisor.                     *)
(***************************************************************************)
EXTENDS Integers, Sequences, FiniteSets, TLC

(***************************************************************************)
(* Arbitrary-precision naturals: sequences of limbs, least significant     *)
(* first, no most-significant zero limb.                                   *)
(***************************************************************************)
Base == 100 * 100

RECURSIVE NatOfInt(_)
NatOfInt(n) == IF n = 0 THEN <<>> ELSE <<n % Base>> \o NatOfInt(n \div Base)

RECURSIVE Strip(_)
Strip(s) ==
    IF s = <<>> THEN s
    ELSE IF s[Len(s)] = 0 THEN Strip(SubSeq(s, 1, Len(s) - 1)) ELSE s

Hd(s) == IF s = <<>> THEN 0 ELSE Head(s)
Tl(s) == IF s = <<>> THEN <<>> ELSE Tail(s)

RECURSIVE NatAddC(_, _, _)
NatAddC(a, b, c) ==
    IF a = <<>> /\ b = <<>>
    THEN (IF c = 0 THEN <<>> ELSE <<c>>)
    ELSE LET s == Hd(a) + Hd(b) + c
         IN  <<s % Base>> \o NatAddC(Tl(a), Tl(b), s \div Base)

\* a - b for a >= b, limb by limb with borrow (not yet stripped)
RECURSIVE NatSubB(_, _, _)
NatSubB(a, b, borrow) ==
    IF a = <<>> THEN <<>>
    ELSE LET d == Hd(a) - Hd(b) - borrow
         IN  <<d % Base>> \o NatSubB(Tl(a), Tl(b), IF d < 0 THEN 1 ELSE 0)

RECURSIVE NatLessTop(_, _, _)
NatLessTop(a, b, i) ==
    IF i = 0 THEN FALSE
    ELSE IF a[i] # b[i] THEN a[i] < b[i] ELSE NatLessTop(a, b, i - 1)

NatLess(a, b) ==
    IF Len(a) # Len(b) THEN Len(a) < Len(b) ELSE NatLessTop(a, b, Len(a))

RECURSIVE NatMulLimb(_, _, _)
NatMulLimb(a, k, c) ==
    IF a = <<>> THEN (IF c = 0 THEN <<>> ELSE <<c>>)
    ELSE LET p == Head(a) * k + c
         IN  <<p % Base>> \o NatMulLimb(Tail(a), k, p \div Base)

RECURSIVE NatMul(_, _)
NatMul(a, b) ==
    IF a = <<>> \/ b = <<>> THEN <<>>
    ELSE LET rest == NatMul(a, Tail(b))
         IN  NatAddC(Strip(NatMulLimb(a, Head(b), 0)),
                     IF rest = <<>> THEN <<>> ELSE <<0>> \o rest, 0)

\* a divided by a limb k (0 < k < Base): [q |-> quotient limbs, r |-> remainder]
RECURSIVE NatDivRem(_, _)
NatDivRem(a, k) ==
    IF a = <<>> THEN [q |-> <<>>, r |-> 0]
    ELSE LET hi  == NatDivRem(Tail(a), k)
             cur == hi.r * Base + Head(a)
         IN  [q |-> <<cur \div k>> \o hi.q, r |-> cur % k]

(***************************************************************************)
(* Arbitrary-precision integers: [neg, mag], zero is [FALSE, <<>>], so     *)
(* that equal numbers are equal values.                                    *)
(***************************************************************************)
BigZero == [neg |-> FALSE, mag |-> <<>>]
BigInt(n) == [neg |-> n < 0, mag |-> NatOfInt(IF n < 0 THEN -n ELSE n)]
BigNeg(a) == IF a.mag = <<>> THEN a ELSE [neg |-> ~a.neg, mag |-> a.mag]
BigAdd(a, b) ==
    IF a.neg = b.neg THEN [neg |-> a.neg, mag |-> NatAddC(a.mag, b.mag, 0)]
    ELSE IF a.mag = b.mag THEN BigZero
    ELSE IF NatLess(a.mag, b.mag)
         THEN [neg |-> b.neg, mag |-> Strip(NatSubB(b.mag, a.mag, 0))]
         ELSE [neg |-> a.neg, mag |-> Strip(NatSubB(a.mag, b.mag, 0))]
BigSub(a, b) == BigAdd(a, BigNeg(b))
BigMul(a, b) ==
    LET m == NatMul(a.mag, b.mag)
    IN  IF m = <<>> THEN BigZero ELSE [neg |-> a.neg # b.neg, mag |-> m]
\* a / k for a limb k that divides a; "Inexact" when it does not
BigDivExact(a, k) ==
    LET d == NatDivRem(a.mag, k)
    IN  IF d.r # 0 THEN "Inexact" ELSE [neg |-> a.neg, mag |-> Strip(d.q)]
\* a / Base^2 for an a that Base^2 divides; "Inexact" when it does not
BigDropLimbs2(a) ==
    IF a.mag = <<>> THEN a
    ELSE IF a.mag[1] # 0 \/ a.mag[2] # 0 THEN "Inexact"
    ELSE [neg |-> a.neg, mag |-> SubSeq(a.mag, 3, Len(a.mag))]
BigLess(a, b) == BigSub(a, b).neg
BigLeq(a, b) == ~BigSub(b, a).neg

(***************************************************************************)
(* Floats as exact decimals: the float x is BigInt(x * Scale),             *)
(* Scale = 12 * 10^9 = 120 * Base^2.                                       *)
(***************************************************************************)
Scale == BigMul(BigInt(12 * 1000), BigInt(1000 * 1000))
F(n) == BigMul(BigInt(n), Scale)
\* the decimal literal n * 10^-7
Dec7(n) == BigMul(BigInt(n), BigInt(1200))
FZero == BigZero
FAdd(a, b) == BigAdd(a, b)
FSub(a, b) == BigSub(a, b)
FNeg(a) == BigNeg(a)
\* a * b / Scale: two limbs dropped (10^8), then / 120
FMul(a, b) == BigDivExact(BigDropLimbs2(BigMul(a, b)), 120)
FLeq(a, b) == BigLeq(a, b)
FLess(a, b) == BigLess(a, b)
\* a / n for a float n that is a whole number dividing a exactly (the / 12)
FDivInt(a, k) == BigDivExact(a, k)
\* a / b in general: the exact quotient num/den with den > 0, or the
\* exception Python raises
Quotient(num, den) == [ok |-> TRUE, num |-> num, den |-> den]
Raised(exception) == [ok |-> FALSE, raised |-> exception]
FDiv(a, b) ==
    IF b = FZero THEN Raised("ZeroDivisionError")
    ELSE IF b.neg THEN Quotient(FNeg(a), FNeg(b))
    ELSE Quotient(a, b)
\* a float returned where a quotient may be
QOfFloat(a) == Quotient(a, F(1))
\* equality of quotients, and a quotient times a float
QEq(p, q) == p.ok /\ q.ok /\ BigMul(p.num, q.den) = BigMul(q.num, p.den)
QTimes(p, f) == Quotient(FMul(p.num, f), p.den)

(***************************************************************************)
(* Floats as IEEE 754 binary64, for the comparisons that rest on rounding  *)
(* (the per-kWh rates at neighbouring prices).  A double is [neg, m, e],   *)
(* the number (-1)^neg * m * 2^e with m odd and below 2^53, zero being     *)
(* [FALSE, <<>>, 0]: equal numbers are equal values.  Every operation      *)
(* rounds the exact result to 53 bits, ties to even.  Overflow, underflow  *)
(* and NaN do not occur for the values drawn.                              *)
(***************************************************************************)
\* powers of two; shifts go 13 bits at a time where they can (2^13 = 8192)
Two39 == NatMul(NatOfInt(8192 * 8192), NatOfInt(8192))
Two52 == NatMul(NatOfInt(8192 * 8192), NatOfInt(8192 * 8192))
Two53 == NatMul(NatOfInt(8192 * 8192), NatOfInt(8192 * 16384))
Two66 == NatMul(Two53, NatOfInt(8192))
RECURSIVE Pow2(_)
Pow2(k) == IF k = 0 THEN 1 ELSE 2 * Pow2(k - 1)

NatHalf(a) == LET d == NatDivRem(a, 2) IN [q |-> Strip(d.q), r |-> d.r]
NatOdd(a) == a # <<>> /\ a[1] % 2 = 1
NatDouble(a) == NatMulLimb(a, 2, 0)
RECURSIVE NatShl(_, _)
NatShl(a, k) ==
    IF k >= 13 THEN NatShl(NatMulLimb(a, 8192, 0), k - 13)
    ELSE NatMulLimb(a, Pow2(k), 0)

\* the number of trailing zero bits of a positive integer
RECURSIVE TrailingZeros(_)
TrailingZeros(n) == IF n % 2 = 1 THEN 0 ELSE 1 + TrailingZeros(n \div 2)
\* the s in 1..13 with 2^(52+s) <= m < 2^(53+s), for 2^53 <= m < 2^66
Two53Shifted == [s \in 0..13 |-> NatMulLimb(Two53, Pow2(s), 0)]
BitsAbove53(m) ==
    CHOOSE s \in 1..13 :
        NatLess(m, Two53Shifted[s]) /\ ~NatLess(m, Two53Shifted[s - 1])

\* (-1)^neg * m * 2^e with the trailing zero bits of m moved into e.  The
\* operand is bound to its value first, here and below, so that it is
\* evaluated once.
RECURSIVE B64Canon(_, _, _)
B64Canon(neg, m, e) ==
    CHOOSE canonical \in
        {IF v = <<>> THEN [neg |-> FALSE, m |-> <<>>, e |-> 0]
         ELSE IF NatOdd(v) THEN [neg |-> neg, m |-> v, e |-> e]
         ELSE IF NatDivRem(v, 8192).r = 0
         THEN B64Canon(neg, Strip(NatDivRem(v, 8192).q), e + 13)
         ELSE LET t == TrailingZeros(NatDivRem(v, 8192).r)
              IN  [neg |-> neg, m |-> Strip(NatDivRem(v, Pow2(t)).q),
                   e |-> e + t]
         : v \in {m}} : TRUE

\* m * 2^e, plus the bits already shifted out (half: the last one, sticky:
\* any earlier one), rounded to 53 bits, ties to even
RECURSIVE B64Round(_, _, _, _, _)
B64Round(neg, m, e, half, sticky) ==
    CHOOSE rounded \in
        {IF NatLess(v, Two53)
         THEN LET up == h /\ (st \/ NatOdd(v))
              IN  B64Canon(neg, IF up THEN NatAddC(v, <<1>>, 0) ELSE v, e)
         ELSE IF NatLess(v, Two66)
         THEN LET s == BitsAbove53(v)
                  d == NatDivRem(v, Pow2(s))
              IN  B64Round(neg, Strip(d.q), e + s, d.r >= Pow2(s - 1),
                           st \/ h \/ d.r % Pow2(s - 1) # 0)
         ELSE LET d == NatDivRem(v, 8192)
              IN  B64Round(neg, Strip(d.q), e + 13, d.r >= 4096,
                           st \/ h \/ d.r % 4096 # 0)
         : v \in {m}, h \in {half}, st \in {sticky}} : TRUE

\* the float of a whole number, and of the decimal literal n * 10^-7 (the
\* double nearest to it, as the Python parser yields)
B64OfInt(n) == B64Canon(n < 0, NatOfInt(IF n < 0 THEN -n ELSE n), 0)
B64OfDec7(n) ==
    LET scaled == NatShl(NatOfInt(IF n < 0 THEN -n ELSE n), 80)
        d1 == NatDivRem(scaled, 10000)
        d2 == NatDivRem(Strip(d1.q), 1000)
    IN  B64Round(n < 0, Strip(d2.q), -80, FALSE, d1.r # 0 \/ d2.r # 0)

B64Neg(a) == IF a.m = <<>> THEN a ELSE [a EXCEPT !.neg = ~a.neg]
\* a as an integer multiple of 2^e, e not above a.e
B64Aligned(a, e) == [neg |-> a.neg, mag |-> NatShl(a.m, a.e - e)]
B64MinExp(a, b) == IF a.e < b.e THEN a.e ELSE b.e
B64Add(a, b) ==
    CHOOSE sum \in
        {LET e == B64MinExp(x, y)
             s == BigAdd(B64Aligned(x, e), B64Aligned(y, e))
         IN  B64Round(s.neg, s.mag, e, FALSE, FALSE)
         : x \in {a}, y \in {b}} : TRUE
B64Mul(a, b) ==
    CHOOSE product \in
        {B64Round(x.neg # y.neg, NatMul(x.m, y.m), x.e + y.e, FALSE, FALSE)
         : x \in {a}, y \in {b}} : TRUE
B64Sub(a, b) == B64Add(a, B64Neg(b))
\* a / k for a whole k, 0 < k < Base (the / 12 of the capacity tariff)
B64DivInt(a, k) ==
    CHOOSE quotient \in
        {LET d == NatDivRem(NatShl(x.m, 80), k)
         IN  B64Round(x.neg, Strip(d.q), x.e - 80, FALSE, d.r # 0)
         : x \in {a}} : TRUE
B64Less(a, b) ==
    \E x \in {a}, y \in {b} :
        BigLess(B64Aligned(x, B64MinExp(x, y)), B64Aligned(y, B64MinExp(x, y)))
B64Leq(a, b) == ~B64Less(b, a)

\* math.nextafter(a, inf) for a positive a: one unit in the last place up
RECURSIVE B64Widen(_, _)
B64Widen(m, e) ==
    IF NatLess(m, Two39) THEN B64Widen(NatMulLimb(m, 8192, 0), e - 13)
    ELSE IF NatLess(m, Two52) THEN B64Widen(NatDouble(m), e - 1)
    ELSE [m |-> m, e |-> e]
B64NextUp(a) ==
    LET w == B64Widen(a.m, a.e)
    IN  B64Canon(FALSE, NatAddC(w.m, <<1>>, 0), w.e)

(***************************************************************************)
(* domain/models.py                                                        *)
(***************************************************************************)
PowerReading(timestamp, power_kw) ==
    [timestamp |-> timestamp, power_kw |-> power_kw]

MonthlyEnergyData(total_kwh_delivered, total_kwh_returned, peak_power_kw) ==
    [total_kwh_delivered |-> total_kwh_delivered,
     total_kwh_returned  |-> total_kwh_returned,
     peak_power_kw       |-> peak_power_kw]

MonthlyCostBreakdown(year, month, fixed_cost, energy_cost, energy_revenue, distribution_cost, injection_cost, gsc_cost, wkk_cost, capacity_cost, total_kwh_delivered, total_kwh_returned, peak_power_kw) ==
    [year |-> year, month |-> month,
     fixed_cost |-> fixed_cost, energy_cost |-> energy_cost,
     energy_revenue |-> energy_revenue,
     distribution_cost |-> distribution_cost,
     injection_cost |-> injection_cost,
     gsc_cost |-> gsc_cost, wkk_cost |-> wkk_cost,
     capacity_cost |-> capacity_cost,
     total_kwh_delivered |-> total_kwh_delivered,
     total_kwh_returned |-> total_kwh_returned,
     peak_power_kw |-> peak_power_kw]

\* mutant: the revenue is added instead of subtracted
total_cost_revenue_added(self) ==
    FAdd(FAdd(FAdd(FAdd(FAdd(FAdd(FAdd(
        self.fixed_cost,
        self.energy_cost),
        self.distribution_cost),
        self.injection_cost),
        self.gsc_cost),
        self.wkk_cost),
        self.capacity_cost),
        self.energy_revenue)

total_cost(self) ==
    FSub(FAdd(FAdd(FAdd(FAdd(FAdd(FAdd(
        self.fixed_cost,
        self.energy_cost),
        self.distribution_cost),
        self.injection_cost),
        self.gsc_cost),
        self.wkk_cost),
        self.capacity_cost),
        self.energy_revenue)

\* mutant: the division without the zero guard
average_price_per_kwh_ex_vat_unguarded(self) ==
    FDiv(total_cost(self), self.total_kwh_delivered)

average_price_per_kwh_ex_vat(self) ==
    IF self.total_kwh_delivered = FZero
    THEN QOfFloat(FZero)
    ELSE FDiv(total_cost(self), self.total_kwh_delivered)

\* mutant: the 21% rate instead of the residential 6%
VatFactor_21 == Dec7(12100000)
\* the literal 1.06
VatFactor == Dec7(10600000)

average_price_per_kwh_incl_vat(self) ==
    IF self.total_kwh_delivered = FZero
    THEN QOfFloat(FZero)
    ELSE FDiv(FMul(total_cost(self), VatFactor), self.total_kwh_delivered)

(***************************************************************************)
(* domain/tariff_calculator.py: EcopowerTariffCalculator                   *)
(***************************************************************************)
Eco_ECOPOWER_SUBSCRIPTION == F(5)
Eco_FLUVIUS_SUBSCRIPTION == F(2)
\* mutant: the coefficient with its sign lost
Eco_CONSUMPTION_COEFFICIENT_negated == Dec7(-10200)
Eco_CONSUMPTION_COEFFICIENT == Dec7(10200)
Eco_CONSUMPTION_FIXED == Dec7(40000)
Eco_INJECTION_COEFFICIENT == Dec7(9800)
Eco_INJECTION_FIXED == Dec7(-150000)
Eco_DISTRIBUTION_TARIFF == Dec7(704386)
Eco_INJECTION_TARIFF == Dec7(17510)
Eco_GSC_TARIFF == Dec7(110000)
Eco_WKK_TARIFF == Dec7(39200)
Eco_CAPACITY_TARIFF_YEARLY == Dec7(569300000)

\* the literal 0.25 that turns a 15-minute power reading into kWh
QuarterHour == Dec7(2500000)

Eco_calculate_fixed_cost ==
    FAdd(Eco_ECOPOWER_SUBSCRIPTION, Eco_FLUVIUS_SUBSCRIPTION)

Eco_calculate_energy_cost_per_kwh(epex_price_eur_mwh) ==
    FAdd(FMul(Eco_CONSUMPTION_COEFFICIENT, epex_price_eur_mwh),
         Eco_CONSUMPTION_FIXED)

Eco_calculate_energy_revenue_per_kwh(epex_price_eur_mwh) ==
    FAdd(FMul(Eco_INJECTION_COEFFICIENT, epex_price_eur_mwh),
         Eco_INJECTION_FIXED)

\* the same two rates in binary64: the constants are the doubles nearest to
\* the literals, the product and the sum are rounded
Eco_CONSUMPTION_COEFFICIENT_binary64 == B64OfDec7(10200)
Eco_CONSUMPTION_FIXED_binary64 == B64OfDec7(40000)
Eco_INJECTION_COEFFICIENT_binary64 == B64OfDec7(9800)
Eco_INJECTION_FIXED_binary64 == B64OfDec7(-150000)

\* mutant: the price term subtracted from the fixed markup
Eco_calculate_energy_cost_per_kwh_binary64_subtracted(epex_price_eur_mwh) ==
    B64Add(Eco_CONSUMPTION_FIXED_binary64,
           B64Neg(B64Mul(Eco_CONSUMPTION_COEFFICIENT_binary64,
                         epex_price_eur_mwh)))
Eco_calculate_energy_cost_per_kwh_binary64(epex_price_eur_mwh) ==
    B64Add(B64Mul(Eco_CONSUMPTION_COEFFICIENT_binary64, epex_price_eur_mwh),
           Eco_CONSUMPTION_FIXED_binary64)

Eco_calculate_energy_revenue_per_kwh_binary64(epex_price_eur_mwh) ==
    B64Add(B64Mul(Eco_INJECTION_COEFFICIENT_binary64, epex_price_eur_mwh),
           Eco_INJECTION_FIXED_binary64)

Eco_calculate_distribution_cost(kwh) == FMul(kwh, Eco_DISTRIBUTION_TARIFF)
Eco_calculate_injection_cost(kwh) == FMul(kwh, Eco_INJECTION_TARIFF)
Eco_calculate_gsc_cost(kwh) == FMul(kwh, Eco_GSC_TARIFF)
Eco_calculate_wkk_cost(kwh) == FMul(kwh, Eco_WKK_TARIFF)
\* mutant: the capacity tariff is billed on a minimum peak of 2.5 kW
Eco_calculate_monthly_capacity_cost_minimum(peak_power_kw) ==
    LET billed == IF FLess(peak_power_kw, Dec7(25000000))
                  THEN Dec7(25000000) ELSE peak_power_kw
    IN  FDivInt(FMul(billed, Eco_CAPACITY_TARIFF_YEARLY), 12)
Eco_calculate_monthly_capacity_cost(peak_power_kw) ==
    FDivInt(FMul(peak_power_kw, Eco_CAPACITY_TARIFF_YEARLY), 12)

\* mutant: the lookup floors the timestamp to the 15-minute grid first
epex_prices_get_floored(epex_prices, timestamp) ==
    LET floored == (timestamp \div 15) * 15
    IN  IF floored \in DOMAIN epex_prices THEN epex_prices[floored] ELSE FZero
\* mutant: a missing price defaults to 100.0 instead of 0.0
epex_prices_get_default_100(epex_prices, timestamp) ==
    IF timestamp \in DOMAIN epex_prices THEN epex_prices[timestamp] ELSE F(100)
\* epex_prices.get(timestamp, 0.0)
epex_prices_get(epex_prices, timestamp) ==
    IF timestamp \in DOMAIN epex_prices THEN epex_prices[timestamp] ELSE FZero

\* mutant: a consumption reading without a price is skipped
Eco_consumption_step_skips_unpriced(acc, reading, epex_prices) ==
    IF reading.timestamp \notin DOMAIN epex_prices THEN acc
    ELSE
    LET kwh_15min    == FMul(reading.power_kw, QuarterHour)
        cost_per_kwh == Eco_calculate_energy_cost_per_kwh(
                            epex_prices[reading.timestamp])
    IN  [acc EXCEPT
           !.total_kwh_delivered = FAdd(@, kwh_15min),
           !.max_power_kw = IF FLess(@, reading.power_kw)
                            THEN reading.power_kw ELSE @,
           !.total_energy_cost = FAdd(@, FMul(cost_per_kwh, kwh_15min))]
\* one iteration of "for reading in consumption_readings"
Eco_consumption_step(acc, reading, epex_prices) ==
    LET kwh_15min    == FMul(reading.power_kw, QuarterHour)
        epex_price   == epex_prices_get(epex_prices, reading.timestamp)
        cost_per_kwh == Eco_calculate_energy_cost_per_kwh(epex_price)
    IN  [acc EXCEPT
           !.total_kwh_delivered = FAdd(@, kwh_15min),
           !.max_power_kw = IF FLess(@, reading.power_kw)
                            THEN reading.power_kw ELSE @,
           !.total_energy_cost = FAdd(@, FMul(cost_per_kwh, kwh_15min))]

\* mutant: the injection loop tracks the peak as the consumption loop does
Eco_injection_step_tracks_peak(acc, reading, epex_prices) ==
    LET kwh_15min       == FMul(reading.power_kw, QuarterHour)
        epex_price      == epex_prices_get(epex_prices, reading.timestamp)
        revenue_per_kwh == Eco_calculate_energy_revenue_per_kwh(epex_price)
    IN  [acc EXCEPT
           !.total_kwh_returned = FAdd(@, kwh_15min),
           !.max_power_kw = IF FLess(@, reading.power_kw)
                            THEN reading.power_kw ELSE @,
           !.total_energy_revenue = FAdd(@, FMul(revenue_per_kwh, kwh_15min))]
\* one iteration of "for reading in injection_readings"
Eco_injection_step(acc, reading, epex_prices) ==
    LET kwh_15min       == FMul(reading.power_kw, QuarterHour)
        epex_price      == epex_prices_get(epex_prices, reading.timestamp)
        revenue_per_kwh == Eco_calculate_energy_revenue_per_kwh(epex_price)
    IN  [acc EXCEPT
           !.total_kwh_returned = FAdd(@, kwh_15min),
           !.total_energy_revenue = FAdd(@, FMul(revenue_per_kwh, kwh_15min))]

RECURSIVE Eco_consumption_loop(_, _, _)
Eco_consumption_loop(acc, readings, epex_prices) ==
    IF readings = <<>> THEN acc
    ELSE Eco_consumption_loop(
             Eco_consumption_step(acc, Head(readings), epex_prices),
             Tail(readings), epex_prices)

RECURSIVE Eco_injection_loop(_, _, _)
Eco_injection_loop(acc, readings, epex_prices) ==
    IF readings = <<>> THEN acc
    ELSE Eco_injection_loop(
             Eco_injection_step(acc, Head(readings), epex_prices),
             Tail(readings), epex_prices)

\* returns the tuple (total_energy_cost, total_energy_revenue, energy_data)
Eco_calculate_quarterly_energy_costs(consumption_readings, injection_readings, epex_prices) ==
    LET start == [total_energy_cost |-> FZero, total_energy_revenue |-> FZero,
                  total_kwh_delivered |-> FZero, total_kwh_returned |-> FZero,
                  max_power_kw |-> FZero]
        after == Eco_injection_loop(
                     Eco_consumption_loop(start, consumption_readings,
                                          epex_prices),
                     injection_readings, epex_prices)
    IN  <<after.total_energy_cost, after.total_energy_revenue,
          MonthlyEnergyData(after.total_kwh_delivered,
                            after.total_kwh_returned, after.max_power_kw)>>

Eco_calculate_monthly_cost(year, month, consumption_readings, injection_readings, epex_prices) ==
    LET q == Eco_calculate_quarterly_energy_costs(
                 consumption_readings, injection_readings, epex_prices)
        energy_cost    == q[1]
        energy_revenue == q[2]
        energy_data    == q[3]
    IN  MonthlyCostBreakdown(
            year, month,
            Eco_calculate_fixed_cost,
            energy_cost,
            energy_revenue,
            Eco_calculate_distribution_cost(energy_data.total_kwh_delivered),
            Eco_calculate_injection_cost(energy_data.total_kwh_returned),
            Eco_calculate_gsc_cost(energy_data.total_kwh_delivered),
            Eco_calculate_wkk_cost(energy_data.total_kwh_delivered),
            Eco_calculate_monthly_capacity_cost(energy_data.peak_power_kw),
            energy_data.total_kwh_delivered,
            energy_data.total_kwh_returned,
            energy_data.peak_power_kw)

(***************************************************************************)
(* EcopowerTariffCalculator in binary64: the same methods with every       *)
(* literal the double nearest to it and every operation rounded, in the    *)
(* order the code evaluates them.  A local the code assigns once and then  *)
(* reads several times is bound to its value once (CHOOSE over the         *)
(* singleton of that value).                                               *)
(***************************************************************************)
B64Zero == B64OfInt(0)
QuarterHour_binary64 == B64OfDec7(2500000)
Eco_ECOPOWER_SUBSCRIPTION_binary64 == B64OfInt(5)
Eco_FLUVIUS_SUBSCRIPTION_binary64 == B64OfInt(2)
Eco_DISTRIBUTION_TARIFF_binary64 == B64OfDec7(704386)
Eco_INJECTION_TARIFF_binary64 == B64OfDec7(17510)
Eco_GSC_TARIFF_binary64 == B64OfDec7(110000)
Eco_WKK_TARIFF_binary64 == B64OfDec7(39200)
Eco_CAPACITY_TARIFF_YEARLY_binary64 == B64OfDec7(569300000)

Eco_calculate_fixed_cost_binary64 ==
    B64Add(Eco_ECOPOWER_SUBSCRIPTION_binary64, Eco_FLUVIUS_SUBSCRIPTION_binary64)
Eco_calculate_distribution_cost_binary64(kwh) ==
    B64Mul(kwh, Eco_DISTRIBUTION_TARIFF_binary64)
Eco_calculate_injection_cost_binary64(kwh) ==
    B64Mul(kwh, Eco_INJECTION_TARIFF_binary64)
Eco_calculate_gsc_cost_binary64(kwh) == B64Mul(kwh, Eco_GSC_TARIFF_binary64)
Eco_calculate_wkk_cost_binary64(kwh) == B64Mul(kwh, Eco_WKK_TARIFF_binary64)
Eco_calculate_monthly_capacity_cost_binary64(peak_power_kw) ==
    B64DivInt(B64Mul(peak_power_kw, Eco_CAPACITY_TARIFF_YEARLY_binary64), 12)

\* epex_prices.get(timestamp, 0.0)
epex_prices_get_binary64(epex_prices, timestamp) ==
    IF timestamp \in DOMAIN epex_prices THEN epex_prices[timestamp] ELSE B64Zero

\* mutant: a reading with negative power is rejected (skipped)
Eco_consumption_step_binary64_rejecting(acc, reading, epex_prices) ==
    LET kwh_15min    == B64Mul(reading.power_kw, QuarterHour_binary64)
        epex_price   == epex_prices_get_binary64(epex_prices, reading.timestamp)
        cost_per_kwh == Eco_calculate_energy_cost_per_kwh_binary64(epex_price)
    IN  IF reading.power_kw.neg THEN acc
        ELSE [acc EXCEPT
                !.total_kwh_delivered = B64Add(@, kwh_15min),
                !.max_power_kw = IF B64Less(@, reading.power_kw)
                                 THEN reading.power_kw ELSE @,
                !.total_energy_cost =
                    B64Add(@, B64Mul(cost_per_kwh, kwh_15min))]
Eco_consumption_step_binary64(acc, reading, epex_prices) ==
    LET kwh_15min    == B64Mul(reading.power_kw, QuarterHour_binary64)
        epex_price   == epex_prices_get_binary64(epex_prices, reading.timestamp)
        cost_per_kwh == Eco_calculate_energy_cost_per_kwh_binary64(epex_price)
    IN  [acc EXCEPT
           !.total_kwh_delivered = B64Add(@, kwh_15min),
           !.max_power_kw = IF B64Less(@, reading.power_kw)
                            THEN reading.power_kw ELSE @,
           !.total_energy_cost = B64Add(@, B64Mul(cost_per_kwh, kwh_15min))]

Eco_injection_step_binary64(acc, reading, epex_prices) ==
    LET kwh_15min       == B64Mul(reading.power_kw, QuarterHour_binary64)
        epex_price      == epex_prices_get_binary64(epex_prices,
                                                    reading.timestamp)
        revenue_per_kwh ==
            Eco_calculate_energy_revenue_per_kwh_binary64(epex_price)
    IN  [acc EXCEPT
           !.total_kwh_returned = B64Add(@, kwh_15min),
           !.total_energy_revenue =
               B64Add(@, B64Mul(revenue_per_kwh, kwh_15min))]

RECURSIVE Eco_consumption_loop_binary64(_, _, _)
Eco_consumption_loop_binary64(acc, readings, epex_prices) ==
    IF readings = <<>> THEN acc
    ELSE Eco_consumption_loop_binary64(
             Eco_consumption_step_binary64(acc, Head(readings), epex_prices),
             Tail(readings), epex_prices)

RECURSIVE Eco_injection_loop_binary64(_, _, _)
Eco_injection_loop_binary64(acc, readings, epex_prices) ==
    IF readings = <<>> THEN acc
    ELSE Eco_injection_loop_binary64(
             Eco_injection_step_binary64(acc, Head(readings), epex_prices),
             Tail(readings), epex_prices)

Eco_calculate_quarterly_energy_costs_binary64(consumption_readings, injection_readings, epex_prices) ==
    LET start == [total_energy_cost |-> B64Zero,
                  total_energy_revenue |-> B64Zero,
                  total_kwh_delivered |-> B64Zero,
                  total_kwh_returned |-> B64Zero,
                  max_power_kw |-> B64Zero]
    IN  CHOOSE result \in
            {<<after.total_energy_cost, after.total_energy_revenue,
               MonthlyEnergyData(after.total_kwh_delivered,
                                 after.total_kwh_returned, after.max_power_kw)>>
             : after \in
                 {Eco_injection_loop_binary64(
                      Eco_consumption_loop_binary64(
                          start, consumption_readings, epex_prices),
                      injection_readings, epex_prices)}} : TRUE

Eco_calculate_monthly_cost_binary64(year, month, consumption_readings, injection_readings, epex_prices) ==
    CHOOSE breakdown \in
        {LET energy_cost    == q[1]
             energy_revenue == q[2]
             energy_data    == q[3]
         IN  MonthlyCostBreakdown(
                 year, month,
                 Eco_calculate_fixed_cost_binary64,
                 energy_cost,
                 energy_revenue,
                 Eco_calculate_distribution_cost_binary64(
                     energy_data.total_kwh_delivered),
                 Eco_calculate_injection_cost_binary64(
                     energy_data.total_kwh_returned),
                 Eco_calculate_gsc_cost_binary64(
                     energy_data.total_kwh_delivered),
                 Eco_calculate_wkk_cost_binary64(
                     energy_data.total_kwh_delivered),
                 Eco_calculate_monthly_capacity_cost_binary64(
                     energy_data.peak_power_kw),
                 energy_data.total_kwh_delivered,
                 energy_data.total_kwh_returned,
                 energy_data.peak_power_kw)
         : q \in {Eco_calculate_quarterly_energy_costs_binary64(
                      consumption_readings, injection_readings,
                      epex_prices)}} : TRUE

(***************************************************************************)
(* domain/fixed_tariff_calculator.py: FixedTariffCalculator                *)
(***************************************************************************)
Fixed_ECOPOWER_SUBSCRIPTION == F(5)
Fixed_FLUVIUS_SUBSCRIPTION == F(2)
Fixed_ENERGY_RATE == Dec7(1187000)
Fixed_INJECTION_RATE == Dec7(-200000)
Fixed_DISTRIBUTION_TARIFF == Dec7(704386)
Fixed_INJECTION_TARIFF == Dec7(17510)
Fixed_GSC_TARIFF == Dec7(110000)
Fixed_WKK_TARIFF == Dec7(39200)
\* mutant: the analog-meter rate of 60 per year
Fixed_CAPACITY_TARIFF_YEARLY_analog == F(60)
Fixed_CAPACITY_TARIFF_YEARLY == Dec7(569300000)
Fixed_ENERGY_CONTRIBUTION == Dec7(19261)
Fixed_EXCISE_TIER_1 == Dec7(474800)
Fixed_EXCISE_TIER_2 == Dec7(474800)
\* mutant: the rate of tier 2 pasted into tier 3
Fixed_EXCISE_TIER_3_pasted == Dec7(474800)
Fixed_EXCISE_TIER_3 == Dec7(454600)
Fixed_EXCISE_TIER_4 == Dec7(447800)
Fixed_ENERGY_FUND_MONTHLY == Dec7(50000)

\* mutant: the yearly Fluvius fee (17.51) taken for the monthly one
Fixed_calculate_fixed_cost_yearly_fee ==
    FAdd(FAdd(Fixed_ECOPOWER_SUBSCRIPTION, Dec7(175100000)),
         Fixed_ENERGY_FUND_MONTHLY)
Fixed_calculate_fixed_cost ==
    FAdd(FAdd(Fixed_ECOPOWER_SUBSCRIPTION, Fixed_FLUVIUS_SUBSCRIPTION),
         Fixed_ENERGY_FUND_MONTHLY)

\* the literals of calculate_excise_tax: tier bounds and tier widths, in kWh
Kwh3000 == F(3000)
Kwh17000 == F(17000)
Kwh20000 == F(20000)
Kwh30000 == F(30000)
Kwh50000 == F(50000)

\* mutant: the tier bounds taken as exclusive
Fixed_excise_branch_exclusive(total_kwh) ==
    IF FLess(total_kwh, Kwh3000) THEN 1
    ELSE IF FLess(total_kwh, Kwh20000) THEN 2
    ELSE IF FLess(total_kwh, Kwh50000) THEN 3
    ELSE 4

\* which branch of the if/elif chain of calculate_excise_tax is taken
Fixed_excise_branch(total_kwh) ==
    IF FLeq(total_kwh, Kwh3000) THEN 1
    ELSE IF FLeq(total_kwh, Kwh20000) THEN 2
    ELSE IF FLeq(total_kwh, Kwh50000) THEN 3
    ELSE 4

\* the assignment to excise in each branch
Fixed_excise_tier_1(total_kwh) == FMul(total_kwh, Fixed_EXCISE_TIER_1)
\* mutant: tier 2 forgets the tax of the first 3000 kWh
Fixed_excise_tier_2_marginal_only(total_kwh) ==
    FMul(FSub(total_kwh, Kwh3000), Fixed_EXCISE_TIER_2)
Fixed_excise_tier_2(total_kwh) ==
    FAdd(FMul(Kwh3000, Fixed_EXCISE_TIER_1),
         FMul(FSub(total_kwh, Kwh3000), Fixed_EXCISE_TIER_2))
Fixed_excise_tier_3(total_kwh) ==
    FAdd(FAdd(FMul(Kwh3000, Fixed_EXCISE_TIER_1),
              FMul(Kwh17000, Fixed_EXCISE_TIER_2)),
         FMul(FSub(total_kwh, Kwh20000), Fixed_EXCISE_TIER_3))
\* mutant: tier 4 measures the excess from 20000 kWh
Fixed_excise_tier_4_wrong_base(total_kwh) ==
    FAdd(FAdd(FAdd(FMul(Kwh3000, Fixed_EXCISE_TIER_1),
                   FMul(Kwh17000, Fixed_EXCISE_TIER_2)),
              FMul(Kwh30000, Fixed_EXCISE_TIER_3)),
         FMul(FSub(total_kwh, Kwh20000), Fixed_EXCISE_TIER_4))
Fixed_excise_tier_4(total_kwh) ==
    FAdd(FAdd(FAdd(FMul(Kwh3000, Fixed_EXCISE_TIER_1),
                   FMul(Kwh17000, Fixed_EXCISE_TIER_2)),
              FMul(Kwh30000, Fixed_EXCISE_TIER_3)),
         FMul(FSub(total_kwh, Kwh50000), Fixed_EXCISE_TIER_4))

Fixed_calculate_excise_tax(total_kwh) ==
    LET branch == Fixed_excise_branch(total_kwh)
    IN  IF branch = 1 THEN Fixed_excise_tier_1(total_kwh)
        ELSE IF branch = 2 THEN Fixed_excise_tier_2(total_kwh)
        ELSE IF branch = 3 THEN Fixed_excise_tier_3(total_kwh)
        ELSE Fixed_excise_tier_4(total_kwh)

Fixed_calculate_energy_cost(kwh) == FMul(kwh, Fixed_ENERGY_RATE)
\* mutant: the negative rate used without the negation
Fixed_calculate_energy_revenue_signed(kwh) == FMul(kwh, Fixed_INJECTION_RATE)
Fixed_calculate_energy_revenue(kwh) == FMul(kwh, FNeg(Fixed_INJECTION_RATE))
Fixed_calculate_energy_contribution(kwh) ==
    FMul(kwh, Fixed_ENERGY_CONTRIBUTION)
Fixed_calculate_distribution_cost(kwh) == FMul(kwh, Fixed_DISTRIBUTION_TARIFF)
Fixed_calculate_injection_cost(kwh) == FMul(kwh, Fixed_INJECTION_TARIFF)
Fixed_calculate_gsc_cost(kwh) == FMul(kwh, Fixed_GSC_TARIFF)
Fixed_calculate_wkk_cost(kwh) == FMul(kwh, Fixed_WKK_TARIFF)
Fixed_calculate_monthly_capacity_cost(peak_power_kw) ==
    FDivInt(FMul(peak_power_kw, Fixed_CAPACITY_TARIFF_YEARLY), 12)

\* the per-kWh components in binary64: the rate is the double nearest to the
\* literal, the product is rounded
Fixed_ENERGY_RATE_binary64 == B64OfDec7(1187000)
Fixed_INJECTION_RATE_binary64 == B64OfDec7(-200000)
Fixed_ENERGY_CONTRIBUTION_binary64 == B64OfDec7(19261)
Fixed_DISTRIBUTION_TARIFF_binary64 == B64OfDec7(704386)
Fixed_INJECTION_TARIFF_binary64 == B64OfDec7(17510)
Fixed_GSC_TARIFF_binary64 == B64OfDec7(110000)
Fixed_WKK_TARIFF_binary64 == B64OfDec7(39200)
\* mutant: a standing charge of 1.0 on top of the proportional part
Fixed_calculate_energy_cost_binary64_standing_charge(kwh) ==
    B64Add(B64Mul(kwh, Fixed_ENERGY_RATE_binary64), B64OfInt(1))
Fixed_calculate_energy_cost_binary64(kwh) ==
    B64Mul(kwh, Fixed_ENERGY_RATE_binary64)
Fixed_calculate_energy_revenue_binary64(kwh) ==
    B64Mul(kwh, B64Neg(Fixed_INJECTION_RATE_binary64))
Fixed_calculate_energy_contribution_binary64(kwh) ==
    B64Mul(kwh, Fixed_ENERGY_CONTRIBUTION_binary64)
Fixed_calculate_distribution_cost_binary64(kwh) ==
    B64Mul(kwh, Fixed_DISTRIBUTION_TARIFF_binary64)
Fixed_calculate_injection_cost_binary64(kwh) ==
    B64Mul(kwh, Fixed_INJECTION_TARIFF_binary64)
Fixed_calculate_gsc_cost_binary64(kwh) ==
    B64Mul(kwh, Fixed_GSC_TARIFF_binary64)
Fixed_calculate_wkk_cost_binary64(kwh) ==
    B64Mul(kwh, Fixed_WKK_TARIFF_binary64)

\* mutant: "=" written for "+=": the total is the last reading's energy
Fixed_consumption_step_assigns(acc, reading) ==
    LET kwh_15min == FMul(reading.power_kw, QuarterHour)
    IN  [acc EXCEPT
           !.total_kwh_delivered = kwh_15min,
           !.max_power_kw = IF FLess(@, reading.power_kw)
                            THEN reading.power_kw ELSE @]
\* one iteration of "for reading in consumption_readings"
Fixed_consumption_step(acc, reading) ==
    LET kwh_15min == FMul(reading.power_kw, QuarterHour)
    IN  [acc EXCEPT
           !.total_kwh_delivered = FAdd(@, kwh_15min),
           !.max_power_kw = IF FLess(@, reading.power_kw)
                            THEN reading.power_kw ELSE @]

\* one iteration of "for reading in injection_readings"
\* mutant: the energy returned is netted off the energy delivered
Fixed_injection_step_nets_delivery(acc, reading) ==
    LET kwh_15min == FMul(reading.power_kw, QuarterHour)
    IN  [acc EXCEPT !.total_kwh_returned = FAdd(@, kwh_15min),
                    !.total_kwh_delivered = FSub(@, kwh_15min)]
Fixed_injection_step(acc, reading) ==
    LET kwh_15min == FMul(reading.power_kw, QuarterHour)
    IN  [acc EXCEPT !.total_kwh_returned = FAdd(@, kwh_15min)]

RECURSIVE Fixed_consumption_loop(_, _)
Fixed_consumption_loop(acc, readings) ==
    IF readings = <<>> THEN acc
    ELSE Fixed_consumption_loop(Fixed_consumption_step(acc, Head(readings)),
                                Tail(readings))

RECURSIVE Fixed_injection_loop(_, _)
Fixed_injection_loop(acc, readings) ==
    IF readings = <<>> THEN acc
    ELSE Fixed_injection_loop(Fixed_injection_step(acc, Head(readings)),
                              Tail(readings))

Fixed_aggregate_energy_data(consumption_readings, injection_readings) ==
    LET start == [total_kwh_delivered |-> FZero, total_kwh_returned |-> FZero,
                  max_power_kw |-> FZero]
        after == Fixed_injection_loop(
                     Fixed_consumption_loop(start, consumption_readings),
                     injection_readings)
    IN  MonthlyEnergyData(after.total_kwh_delivered,
                          after.total_kwh_returned, after.max_power_kw)

Fixed_calculate_monthly_cost(year, month, consumption_readings, injection_readings) ==
    LET energy_data == Fixed_aggregate_energy_data(consumption_readings,
                                                   injection_readings)
        energy_cost ==
            Fixed_calculate_energy_cost(energy_data.total_kwh_delivered)
        energy_contribution ==
            Fixed_calculate_energy_contribution(energy_data.total_kwh_delivered)
        excise_tax ==
            Fixed_calculate_excise_tax(energy_data.total_kwh_delivered)
        total_energy_cost ==
            FAdd(FAdd(energy_cost, energy_contribution), excise_tax)
    IN  MonthlyCostBreakdown(
            year, month,
            Fixed_calculate_fixed_cost,
            total_energy_cost,
            Fixed_calculate_energy_revenue(energy_data.total_kwh_returned),
            Fixed_calculate_distribution_cost(energy_data.total_kwh_delivered),
            Fixed_calculate_injection_cost(energy_data.total_kwh_returned),
            Fixed_calculate_gsc_cost(energy_data.total_kwh_delivered),
            Fixed_calculate_wkk_cost(energy_data.total_kwh_delivered),
            Fixed_calculate_monthly_capacity_cost(energy_data.peak_power_kw),
            energy_data.total_kwh_delivered,
            energy_data.total_kwh_returned,
            energy_data.peak_power_kw)

(***************************************************************************)
(* FixedTariffCalculator in binary64.                                      *)
(***************************************************************************)
Fixed_ECOPOWER_SUBSCRIPTION_binary64 == B64OfInt(5)
Fixed_FLUVIUS_SUBSCRIPTION_binary64 == B64OfInt(2)
Fixed_ENERGY_FUND_MONTHLY_binary64 == B64OfDec7(50000)
Fixed_CAPACITY_TARIFF_YEARLY_binary64 == B64OfDec7(569300000)
Fixed_EXCISE_TIER_1_binary64 == B64OfDec7(474800)
Fixed_EXCISE_TIER_2_binary64 == B64OfDec7(474800)
Fixed_EXCISE_TIER_3_binary64 == B64OfDec7(454600)
Fixed_EXCISE_TIER_4_binary64 == B64OfDec7(447800)

Fixed_calculate_fixed_cost_binary64 ==
    B64Add(B64Add(Fixed_ECOPOWER_SUBSCRIPTION_binary64,
                  Fixed_FLUVIUS_SUBSCRIPTION_binary64),
           Fixed_ENERGY_FUND_MONTHLY_binary64)

Fixed_calculate_excise_tax_binary64(total_kwh) ==
    IF B64Leq(total_kwh, B64OfInt(3000))
    THEN B64Mul(total_kwh, Fixed_EXCISE_TIER_1_binary64)
    ELSE IF B64Leq(total_kwh, B64OfInt(20000))
    THEN B64Add(B64Mul(B64OfInt(3000), Fixed_EXCISE_TIER_1_binary64),
                B64Mul(B64Sub(total_kwh, B64OfInt(3000)),
                       Fixed_EXCISE_TIER_2_binary64))
    ELSE IF B64Leq(total_kwh, B64OfInt(50000))
    THEN B64Add(B64Add(B64Mul(B64OfInt(3000), Fixed_EXCISE_TIER_1_binary64),
                       B64Mul(B64OfInt(17000), Fixed_EXCISE_TIER_2_binary64)),
                B64Mul(B64Sub(total_kwh, B64OfInt(20000)),
                       Fixed_EXCISE_TIER_3_binary64))
    ELSE B64Add(B64Add(B64Add(
                    B64Mul(B64OfInt(3000), Fixed_EXCISE_TIER_1_binary64),
                    B64Mul(B64OfInt(17000), Fixed_EXCISE_TIER_2_binary64)),
                    B64Mul(B64OfInt(30000), Fixed_EXCISE_TIER_3_binary64)),
                B64Mul(B64Sub(total_kwh, B64OfInt(50000)),
                       Fixed_EXCISE_TIER_4_binary64))

Fixed_calculate_monthly_capacity_cost_binary64(peak_power_kw) ==
    B64DivInt(B64Mul(peak_power_kw, Fixed_CAPACITY_TARIFF_YEARLY_binary64), 12)

\* mutant: the peak is the last positive reading seen, not the largest
Fixed_consumption_step_binary64_last_peak(acc, reading) ==
    LET kwh_15min == B64Mul(reading.power_kw, QuarterHour_binary64)
    IN  [acc EXCEPT
           !.total_kwh_delivered = B64Add(@, kwh_15min),
           !.max_power_kw = IF B64Less(B64Zero, reading.power_kw)
                            THEN reading.power_kw ELSE @]
Fixed_consumption_step_binary64(acc, reading) ==
    LET kwh_15min == B64Mul(reading.power_kw, QuarterHour_binary64)
    IN  [acc EXCEPT
           !.total_kwh_delivered = B64Add(@, kwh_15min),
           !.max_power_kw = IF B64Less(@, reading.power_kw)
                            THEN reading.power_kw ELSE @]

Fixed_injection_step_binary64(acc, reading) ==
    LET kwh_15min == B64Mul(reading.power_kw, QuarterHour_binary64)
    IN  [acc EXCEPT !.total_kwh_returned = B64Add(@, kwh_15min)]

RECURSIVE Fixed_consumption_loop_binary64(_, _)
Fixed_consumption_loop_binary64(acc, readings) ==
    IF readings = <<>> THEN acc
    ELSE Fixed_consumption_loop_binary64(
             Fixed_consumption_step_binary64(acc, Head(readings)),
             Tail(readings))

RECURSIVE Fixed_injection_loop_binary64(_, _)
Fixed_injection_loop_binary64(acc, readings) ==
    IF readings = <<>> THEN acc
    ELSE Fixed_injection_loop_binary64(
             Fixed_injection_step_binary64(acc, Head(readings)),
             Tail(readings))

\* mutant: the running maximum starts at the first reading, not at 0.0
Fixed_aggregate_energy_data_binary64_unseeded(consumption_readings, injection_readings) ==
    LET start == [total_kwh_delivered |-> B64Zero,
                  total_kwh_returned |-> B64Zero,
                  max_power_kw |-> IF consumption_readings = <<>>
                                   THEN B64Zero
                                   ELSE Head(consumption_readings).power_kw]
    IN  CHOOSE result \in
            {MonthlyEnergyData(after.total_kwh_delivered,
                               after.total_kwh_returned, after.max_power_kw)
             : after \in
                 {Fixed_injection_loop_binary64(
                      Fixed_consumption_loop_binary64(start,
                                                      consumption_readings),
                      injection_readings)}} : TRUE
Fixed_aggregate_energy_data_binary64(consumption_readings, injection_readings) ==
    LET start == [total_kwh_delivered |-> B64Zero,
                  total_kwh_returned |-> B64Zero,
                  max_power_kw |-> B64Zero]
    IN  CHOOSE result \in
            {MonthlyEnergyData(after.total_kwh_delivered,
                               after.total_kwh_returned, after.max_power_kw)
             : after \in
                 {Fixed_injection_loop_binary64(
                      Fixed_consumption_loop_binary64(start,
                                                      consumption_readings),
                      injection_readings)}} : TRUE

Fixed_calculate_monthly_cost_binary64(year, month, consumption_readings, injection_readings) ==
    CHOOSE breakdown \in
        {LET energy_cost ==
                 Fixed_calculate_energy_cost_binary64(
                     energy_data.total_kwh_delivered)
             energy_contribution ==
                 Fixed_calculate_energy_contribution_binary64(
                     energy_data.total_kwh_delivered)
             excise_tax ==
                 Fixed_calculate_excise_tax_binary64(
                     energy_data.total_kwh_delivered)
             total_energy_cost ==
                 B64Add(B64Add(energy_cost, energy_contribution), excise_tax)
         IN  MonthlyCostBreakdown(
                 year, month,
                 Fixed_calculate_fixed_cost_binary64,
                 total_energy_cost,
                 Fixed_calculate_energy_revenue_binary64(
                     energy_data.total_kwh_returned),
                 Fixed_calculate_distribution_cost_binary64(
                     energy_data.total_kwh_delivered),
                 Fixed_calculate_injection_cost_binary64(
                     energy_data.total_kwh_returned),
                 Fixed_calculate_gsc_cost_binary64(
                     energy_data.total_kwh_delivered),
                 Fixed_calculate_wkk_cost_binary64(
                     energy_data.total_kwh_delivered),
                 Fixed_calculate_monthly_capacity_cost_binary64(
                     energy_data.peak_power_kw),
                 energy_data.total_kwh_delivered,
                 energy_data.total_kwh_returned,
                 energy_data.peak_power_kw)
         : energy_data \in {Fixed_aggregate_energy_data_binary64(
                                consumption_readings,
                                injection_readings)}} : TRUE

(***************************************************************************)
(* datetime.datetime and domain/timestamp_utils.py.  A datetime is the     *)
(* record of its fields, tzinfo "None" for a naive one; the constructor    *)
(* raises ValueError outside the ranges of the datetime module             *)
(* (MINYEAR = 1, MAXYEAR = 9999).                                          *)
(***************************************************************************)
DaysInMonth(year, month) ==
    IF month = 2
    THEN IF year % 4 = 0 /\ (year % 100 # 0 \/ year % 400 = 0) THEN 29 ELSE 28
    ELSE IF month \in {4, 6, 9, 11} THEN 30 ELSE 31

\* datetime(year, month, day, hour, minute, second, microsecond)
datetime(year, month, day, hour, minute, second, microsecond) ==
    IF /\ year \in 1..9999
       /\ month \in 1..12
       /\ day \in 1..DaysInMonth(year, month)
       /\ hour \in 0..23
       /\ minute \in 0..59
       /\ second \in 0..59
       /\ microsecond \in 0..999999
    THEN [kind |-> "datetime",
          value |-> [year |-> year, month |-> month, day |-> day,
                     hour |-> hour, minute |-> minute, second |-> second,
                     microsecond |-> microsecond, tzinfo |-> "None"]]
    ELSE [kind |-> "raised", exception |-> "ValueError"]

\* the hours east of UTC of a tzinfo
UtcOffsetHours(tzinfo) == IF tzinfo = "+02:00" THEN 2 ELSE 0

\* mutant: the aware datetime is converted to UTC before the offset is dropped
floor_to_15_minutes_converted(dt) ==
    LET minutes_since_midnight ==
            (dt.hour - UtcOffsetHours(dt.tzinfo)) * 60 + dt.minute
        floored_minutes == (minutes_since_midnight \div 15) * 15
    IN  datetime(dt.year, dt.month, dt.day, floored_minutes \div 60,
                 floored_minutes % 60, 0, 0)
\* mutant: rounds to the nearest quarter instead of down
floor_to_15_minutes_nearest(dt) ==
    LET minutes_since_midnight == dt.hour * 60 + dt.minute
        floored_minutes == ((minutes_since_midnight + 7) \div 15) * 15
    IN  datetime(dt.year, dt.month, dt.day, floored_minutes \div 60,
                 floored_minutes % 60, 0, 0)
floor_to_15_minutes(dt) ==
    LET naive == IF dt.tzinfo # "None" THEN [dt EXCEPT !.tzinfo = "None"]
                 ELSE dt
        minutes_since_midnight == naive.hour * 60 + naive.minute
        floored_minutes == (minutes_since_midnight \div 15) * 15
    IN  datetime(naive.year, naive.month, naive.day, floored_minutes \div 60,
                 floored_minutes % 60, 0, 0)

(***************************************************************************)
(* services/cost_calculation_service.py (MonthlyCostCalculationService, as *)
(* EcoService_) and services/fixed_cost_calculation_service.py             *)
(* (FixedMonthlyCostCalculationService, as FixedService_).  A repository   *)
(* is the record of the lists its methods return.                          *)
(***************************************************************************)
EpexPrice(timestamp, price_eur_mwh) ==
    [timestamp |-> timestamp, price_eur_mwh |-> price_eur_mwh]

\* one call of a repository method, as the repository sees it
\* mutant: the prices are requested from the end of the month on
Fetch_prices_from_end(method, start_date, end_date) ==
    [method |-> method,
     start_date |-> IF method = "get_prices" THEN end_date ELSE start_date,
     end_date |-> end_date]
Fetch(method, start_date, end_date) ==
    [method |-> method, start_date |-> start_date, end_date |-> end_date]

\* mutant: December is not rolled over to January of the next year
EcoService_date_range_no_rollover(year, month) ==
    LET start_date == datetime(year, month, 1, 0, 0, 0, 0)
        end_date == datetime(year, month + 1, 1, 0, 0, 0, 0)
    IN  IF start_date.kind = "raised" THEN start_date
        ELSE IF end_date.kind = "raised" THEN end_date
        ELSE [kind |-> "range", start_date |-> start_date.value,
              end_date |-> end_date.value]
\* start_date and end_date of the month, or the exception datetime() raised
EcoService_date_range(year, month) ==
    LET start_date == datetime(year, month, 1, 0, 0, 0, 0)
        end_date == IF month = 12 THEN datetime(year + 1, 1, 1, 0, 0, 0, 0)
                    ELSE datetime(year, month + 1, 1, 0, 0, 0, 0)
    IN  IF start_date.kind = "raised" THEN start_date
        ELSE IF end_date.kind = "raised" THEN end_date
        ELSE [kind |-> "range", start_date |-> start_date.value,
              end_date |-> end_date.value]

FixedService_date_range(year, month) ==
    LET start_date == datetime(year, month, 1, 0, 0, 0, 0)
        end_date == IF month = 12 THEN datetime(year + 1, 1, 1, 0, 0, 0, 0)
                    ELSE datetime(year, month + 1, 1, 0, 0, 0, 0)
    IN  IF start_date.kind = "raised" THEN start_date
        ELSE IF end_date.kind = "raised" THEN end_date
        ELSE [kind |-> "range", start_date |-> start_date.value,
              end_date |-> end_date.value]

\* a repository method called by a service: it returns its list, or raises
\* when the repository fails (the services catch nothing)
RepositoryMethods ==
    {"get_consumption_readings", "get_injection_readings", "get_prices"}
\* mutant: a failing repository yields an empty list
Fetched_swallowing(repository, method, field) ==
    IF method \in repository.raises
    THEN [kind |-> "list", value |-> <<>>]
    ELSE [kind |-> "list", value |-> repository[field]]
Fetched(repository, method, field) ==
    IF method \in repository.raises
    THEN [kind |-> "raised", exception |-> "RepositoryError"]
    ELSE [kind |-> "list", value |-> repository[field]]

\* one call of the calculator, as the calculator sees it
Invocation(method, year, month, consumption_readings, injection_readings, epex_prices) ==
    [method |-> method, year |-> year, month |-> month,
     consumption_readings |-> consumption_readings,
     injection_readings |-> injection_readings,
     epex_prices |-> epex_prices]

\* mutant: the first entry of a timestamp wins
epex_prices_dict_first_wins(epex_price_list) ==
    [t \in {epex_price_list[i].timestamp : i \in DOMAIN epex_price_list} |->
        LET first == CHOOSE i \in DOMAIN epex_price_list :
                         /\ epex_price_list[i].timestamp = t
                         /\ \A j \in DOMAIN epex_price_list :
                              j < i => epex_price_list[j].timestamp # t
        IN  epex_price_list[first].price_eur_mwh]
\* {price.timestamp: price.price_eur_mwh for price in epex_price_list}
epex_prices_dict(epex_price_list) ==
    [t \in {epex_price_list[i].timestamp : i \in DOMAIN epex_price_list} |->
        LET last == CHOOSE i \in DOMAIN epex_price_list :
                        /\ epex_price_list[i].timestamp = t
                        /\ \A j \in DOMAIN epex_price_list :
                             j > i => epex_price_list[j].timestamp # t
        IN  epex_price_list[last].price_eur_mwh]

\* the calls the service makes, in order (the fetches and the calculator),
\* and what the call returns or raises
EcoService_calculate_monthly_cost(year, month, power_repository, price_repository) ==
    LET range == EcoService_date_range(year, month)
    IN  IF range.kind = "raised" THEN [trace |-> <<>>, result |-> range]
        ELSE
        LET consumption_fetch ==
                Fetch("get_consumption_readings", range.start_date,
                      range.end_date)
            consumption_readings ==
                Fetched(power_repository, "get_consumption_readings",
                        "consumption_readings")
            injection_fetch ==
                Fetch("get_injection_readings", range.start_date,
                      range.end_date)
            injection_readings ==
                Fetched(power_repository, "get_injection_readings",
                        "injection_readings")
            prices_fetch ==
                Fetch("get_prices", range.start_date, range.end_date)
            epex_price_list == Fetched(price_repository, "get_prices", "prices")
        IN  IF consumption_readings.kind = "raised"
            THEN [trace |-> <<consumption_fetch>>,
                  result |-> consumption_readings]
            ELSE IF injection_readings.kind = "raised"
            THEN [trace |-> <<consumption_fetch, injection_fetch>>,
                  result |-> injection_readings]
            ELSE IF epex_price_list.kind = "raised"
            THEN [trace |-> <<consumption_fetch, injection_fetch,
                              prices_fetch>>,
                  result |-> epex_price_list]
            ELSE
            LET epex_prices == epex_prices_dict(epex_price_list.value)
            IN  [trace |->
                    <<consumption_fetch, injection_fetch, prices_fetch,
                      Invocation("EcopowerTariffCalculator.calculate_monthly_cost",
                                 year, month, consumption_readings.value,
                                 injection_readings.value, epex_prices)>>,
                 result |->
                    [kind |-> "breakdown",
                     value |-> Eco_calculate_monthly_cost(
                                   year, month, consumption_readings.value,
                                   injection_readings.value, epex_prices)]]

FixedService_calculate_monthly_cost(year, month, power_repository) ==
    LET range == FixedService_date_range(year, month)
    IN  IF range.kind = "raised" THEN [trace |-> <<>>, result |-> range]
        ELSE
        LET consumption_fetch ==
                Fetch("get_consumption_readings", range.start_date,
                      range.end_date)
            consumption_readings ==
                Fetched(power_repository, "get_consumption_readings",
                        "consumption_readings")
            injection_fetch ==
                Fetch("get_injection_readings", range.start_date,
                      range.end_date)
            injection_readings ==
                Fetched(power_repository, "get_injection_readings",
                        "injection_readings")
        IN  IF consumption_readings.kind = "raised"
            THEN [trace |-> <<consumption_fetch>>,
                  result |-> consumption_readings]
            ELSE IF injection_readings.kind = "raised"
            THEN [trace |-> <<consumption_fetch, injection_fetch>>,
                  result |-> injection_readings]
            ELSE
            [trace |->
                <<consumption_fetch, injection_fetch,
                  Invocation("FixedTariffCalculator.calculate_monthly_cost",
                             year, month, consumption_readings.value,
                             injection_readings.value, <<>>)>>,
             result |->
                [kind |-> "breakdown",
                 value |-> Fixed_calculate_monthly_cost(
                               year, month, consumption_readings.value,
                               injection_readings.value)]]

\* the repository calls of a trace, in order
FetchesOf(trace) == SelectSeq(trace, LAMBDA event : event.method \in RepositoryMethods)


(***************************************************************************)
(* The engine keeps no state between calls: the state of the model is the  *)
(* call in progress (the operation and its arguments) and what it          *)
(* returned.  Every action is one call made by a caller from the idle      *)
(* state; Discard is the caller dropping the result.                       *)
(***************************************************************************)
VARIABLES call, returned
vars == <<call, returned>>

\* the longest pair of reading lists (consumption plus injection) a call gets
MaxReadings == 2

\* timestamps of readings and prices, in minutes since midnight: 12:00, 12:07
Timestamps == {720, 727}
ConsumptionPowers == {F(-2), F(3), F(40000), F(100000)}
InjectionPowers == {F(-1), F(4)}
PriceValues == {F(-50), F(100)}
Years == {2025}
Months == {12}
\* arguments of calculate_excise_tax: every 500 kWh from -1000 to 60500, and
\* 0.25 kWh and 1 kWh to both sides of every tier boundary
KwhValues ==
    {F(500 * k) : k \in -2..121}
    \cup {FAdd(b, d) : b \in {FZero, Kwh3000, Kwh20000, Kwh50000},
                       d \in {F(-1), FNeg(QuarterHour), QuarterHour, F(1)}}
\* field values of a MonthlyCostBreakdown built directly
CostValues == {F(-3), Dec7(12500000)}
DeliveredValues == {FZero, F(-4), F(8)}

ConsumptionReadings ==
    {PowerReading(t, p) : t \in Timestamps, p \in ConsumptionPowers}
InjectionReadings ==
    {PowerReading(t, p) : t \in Timestamps, p \in InjectionPowers}
\* the lists over S of length at most n
Lists(S, n) == UNION {[1..k -> S] : k \in 0..n}
\* the dicts timestamp -> price
PriceMaps == UNION {[D -> PriceValues] : D \in SUBSET Timestamps}

Init ==
    /\ call = [op |-> "idle"]
    /\ returned = [kind |-> "none"]

CallExciseTax ==
    /\ call.op = "idle"
    /\ \E total_kwh \in KwhValues :
         /\ call' = [op |-> "Fixed.calculate_excise_tax",
                     total_kwh |-> total_kwh]
         /\ returned' = [kind |-> "float",
                         value |-> Fixed_calculate_excise_tax(total_kwh)]

CallEcoMonthlyCost ==
    /\ call.op = "idle"
    /\ \E year \in Years, month \in Months,
          consumption_readings \in Lists(ConsumptionReadings, MaxReadings),
          epex_prices \in PriceMaps :
         \E injection_readings \in
                Lists(InjectionReadings,
                      MaxReadings - Len(consumption_readings)) :
           /\ call' = [op |-> "Eco.calculate_monthly_cost",
                       year |-> year, month |-> month,
                       consumption_readings |-> consumption_readings,
                       injection_readings |-> injection_readings,
                       epex_prices |-> epex_prices]
           /\ returned' =
                [kind |-> "breakdown",
                 value |-> Eco_calculate_monthly_cost(
                               year, month, consumption_readings,
                               injection_readings, epex_prices)]

CallFixedMonthlyCost ==
    /\ call.op = "idle"
    /\ \E year \in Years, month \in Months,
          consumption_readings \in Lists(ConsumptionReadings, MaxReadings) :
         \E injection_readings \in
                Lists(InjectionReadings,
                      MaxReadings - Len(consumption_readings)) :
           /\ call' = [op |-> "Fixed.calculate_monthly_cost",
                       year |-> year, month |-> month,
                       consumption_readings |-> consumption_readings,
                       injection_readings |-> injection_readings]
           /\ returned' =
                [kind |-> "breakdown",
                 value |-> Fixed_calculate_monthly_cost(
                               year, month, consumption_readings,
                               injection_readings)]

ConstructBreakdown ==
    /\ call.op = "idle"
    /\ \E year \in Years, month \in Months,
          fixed_cost \in CostValues, energy_cost \in CostValues,
          energy_revenue \in CostValues, distribution_cost \in CostValues,
          injection_cost \in CostValues, gsc_cost \in CostValues,
          wkk_cost \in CostValues, capacity_cost \in CostValues,
          total_kwh_delivered \in DeliveredValues :
         /\ call' = [op |-> "MonthlyCostBreakdown"]
         /\ returned' =
              [kind |-> "breakdown",
               value |-> MonthlyCostBreakdown(
                             year, month, fixed_cost, energy_cost,
                             energy_revenue, distribution_cost, injection_cost,
                             gsc_cost, wkk_cost, capacity_cost,
                             total_kwh_delivered, FZero, FZero)]

Discard ==
    /\ call.op # "idle"
    /\ call' = [op |-> "idle"]
    /\ returned' = [kind |-> "none"]

Next ==
    \/ CallExciseTax
    \/ CallEcoMonthlyCost
    \/ CallFixedMonthlyCost
    \/ ConstructBreakdown
    \/ Discard

Spec == Init /\ [][Next]_vars

\* the prices given to the per-kWh rates, as doubles: whole and decimal
\* prices, the next double above each, their negatives, and zero
PositivePriceFloats ==
    LET given == {B64OfInt(n) : n \in {1, 7, 50, 100, 150}}
                 \cup {B64OfDec7(153061224)}
    IN  given \cup {B64NextUp(p) : p \in given}
EpexPriceFloats ==
    PositivePriceFloats \cup {B64Neg(p) : p \in PositivePriceFloats}
    \cup {B64OfInt(0)}

CallEnergyCostPerKwh ==
    /\ call.op = "idle"
    /\ \E epex_price_eur_mwh \in EpexPriceFloats :
         /\ call' = [op |-> "Eco.calculate_energy_cost_per_kwh",
                     epex_price_eur_mwh |-> epex_price_eur_mwh]
         /\ returned' =
              [kind |-> "binary64",
               value |-> Eco_calculate_energy_cost_per_kwh_binary64(
                             epex_price_eur_mwh)]

CallEnergyRevenuePerKwh ==
    /\ call.op = "idle"
    /\ \E epex_price_eur_mwh \in EpexPriceFloats :
         /\ call' = [op |-> "Eco.calculate_energy_revenue_per_kwh",
                     epex_price_eur_mwh |-> epex_price_eur_mwh]
         /\ returned' =
              [kind |-> "binary64",
               value |-> Eco_calculate_energy_revenue_per_kwh_binary64(
                             epex_price_eur_mwh)]

\* the two calculators and the per-kWh rates alone, the calculators applied
\* to the same inputs as in Spec
NextCalculators ==
    \/ CallEcoMonthlyCost
    \/ CallFixedMonthlyCost
    \/ CallEnergyCostPerKwh
    \/ CallEnergyRevenuePerKwh
    \/ Discard

SpecCalculators == Init /\ [][NextCalculators]_vars

(***************************************************************************)
(* The per-kWh components of the fixed calculator, each called on its own  *)
(* with an energy in binary64.                                             *)
(***************************************************************************)
\* energies in kWh: 0.1, 0.75, 12.5 and whole ones, their negatives, and zero
PositiveKwhFloats ==
    {B64OfInt(n) : n \in {1, 3, 7, 100, 250}}
    \cup {B64OfDec7(n) : n \in {1000000, 7500000, 125000000}}
KwhFloats ==
    PositiveKwhFloats \cup {B64Neg(x) : x \in PositiveKwhFloats}
    \cup {B64OfInt(0)}

CallFixedEnergyCost ==
    /\ call.op = "idle"
    /\ \E kwh \in KwhFloats :
         /\ call' = [op |-> "Fixed.calculate_energy_cost", kwh |-> kwh]
         /\ returned' =
              [kind |-> "binary64",
               value |-> Fixed_calculate_energy_cost_binary64(kwh)]

CallFixedEnergyRevenue ==
    /\ call.op = "idle"
    /\ \E kwh \in KwhFloats :
         /\ call' = [op |-> "Fixed.calculate_energy_revenue", kwh |-> kwh]
         /\ returned' =
              [kind |-> "binary64",
               value |-> Fixed_calculate_energy_revenue_binary64(kwh)]

CallFixedEnergyContribution ==
    /\ call.op = "idle"
    /\ \E kwh \in KwhFloats :
         /\ call' = [op |-> "Fixed.calculate_energy_contribution",
                     kwh |-> kwh]
         /\ returned' =
              [kind |-> "binary64",
               value |-> Fixed_calculate_energy_contribution_binary64(kwh)]

CallFixedDistributionCost ==
    /\ call.op = "idle"
    /\ \E kwh \in KwhFloats :
         /\ call' = [op |-> "Fixed.calculate_distribution_cost", kwh |-> kwh]
         /\ returned' =
              [kind |-> "binary64",
               value |-> Fixed_calculate_distribution_cost_binary64(kwh)]

CallFixedInjectionCost ==
    /\ call.op = "idle"
    /\ \E kwh \in KwhFloats :
         /\ call' = [op |-> "Fixed.calculate_injection_cost", kwh |-> kwh]
         /\ returned' =
              [kind |-> "binary64",
               value |-> Fixed_calculate_injection_cost_binary64(kwh)]

CallFixedGscCost ==
    /\ call.op = "idle"
    /\ \E kwh \in KwhFloats :
         /\ call' = [op |-> "Fixed.calculate_gsc_cost", kwh |-> kwh]
         /\ returned' =
              [kind |-> "binary64",
               value |-> Fixed_calculate_gsc_cost_binary64(kwh)]

CallFixedWkkCost ==
    /\ call.op = "idle"
    /\ \E kwh \in KwhFloats :
         /\ call' = [op |-> "Fixed.calculate_wkk_cost", kwh |-> kwh]
         /\ returned' =
              [kind |-> "binary64",
               value |-> Fixed_calculate_wkk_cost_binary64(kwh)]

NextFixedComponents ==
    \/ CallFixedEnergyCost
    \/ CallFixedEnergyRevenue
    \/ CallFixedEnergyContribution
    \/ CallFixedDistributionCost
    \/ CallFixedInjectionCost
    \/ CallFixedGscCost
    \/ CallFixedWkkCost
    \/ Discard

SpecFixedComponents == Init /\ [][NextFixedComponents]_vars

(***************************************************************************)
(* The two calculators in binary64, called with readings and prices that   *)
(* are doubles: sums over three readings whose result depends on the       *)
(* order of the additions, zero and negative powers, negative prices.      *)
(***************************************************************************)
\* the longest pair of reading lists (consumption plus injection) a call in
\* binary64 gets
MaxFloatReadings == 3

\* 0.1, 0.2, 0.3 and -2.0 kW consumed; 0.7, 0.0 and -1.0 kW injected
FloatConsumptionReadings ==
    {PowerReading(720, B64OfDec7(1000000)),
     PowerReading(720, B64OfDec7(2000000)),
     PowerReading(727, B64OfDec7(3000000)),
     PowerReading(727, B64OfInt(-2))}
FloatInjectionReadings ==
    {PowerReading(720, B64OfDec7(7000000)),
     PowerReading(727, B64OfInt(0)),
     PowerReading(720, B64OfInt(-1))}
FloatPriceMaps ==
    {<< >>, 720 :> B64OfInt(100),
     (720 :> B64OfInt(-50)) @@ (727 :> B64OfInt(100))}

CallEcoMonthlyCostBinary64 ==
    /\ call.op = "idle"
    /\ \E year \in Years, month \in Months,
          consumption_readings \in
              Lists(FloatConsumptionReadings, MaxFloatReadings),
          epex_prices \in FloatPriceMaps :
         \E injection_readings \in
                Lists(FloatInjectionReadings,
                      MaxFloatReadings - Len(consumption_readings)) :
           /\ call' = [op |-> "Eco.calculate_monthly_cost",
                       year |-> year, month |-> month,
                       consumption_readings |-> consumption_readings,
                       injection_readings |-> injection_readings,
                       epex_prices |-> epex_prices]
           /\ returned' =
                [kind |-> "breakdown",
                 value |-> Eco_calculate_monthly_cost_binary64(
                               year, month, consumption_readings,
                               injection_readings, epex_prices)]

CallFixedMonthlyCostBinary64 ==
    /\ call.op = "idle"
    /\ \E year \in Years, month \in Months,
          consumption_readings \in
              Lists(FloatConsumptionReadings, MaxFloatReadings) :
         \E injection_readings \in
                Lists(FloatInjectionReadings,
                      MaxFloatReadings - Len(consumption_readings)) :
           /\ call' = [op |-> "Fixed.calculate_monthly_cost",
                       year |-> year, month |-> month,
                       consumption_readings |-> consumption_readings,
                       injection_readings |-> injection_readings]
           /\ returned' =
                [kind |-> "breakdown",
                 value |-> Fixed_calculate_monthly_cost_binary64(
                               year, month, consumption_readings,
                               injection_readings)]

NextFloatCalculators ==
    \/ CallEcoMonthlyCostBinary64
    \/ CallFixedMonthlyCostBinary64
    \/ Discard

SpecFloatCalculators == Init /\ [][NextFloatCalculators]_vars

(***************************************************************************)
(* Concurrent invocations.  The calculators are classmethods without       *)
(* instance or module state: all a running invocation has is its frame     *)
(* (its arguments, the position of the loop it is in and the locals the    *)
(* loops accumulate into).  Two invocations run at once and their steps    *)
(* interleave: one loop iteration, one loop exit or the final computation  *)
(* of the components at a time.  The class attributes both read are held   *)
(* in class_attributes.                                                    *)
(***************************************************************************)
\* the longest consumption list a concurrent invocation gets
MaxConcurrentReadings == 2
Invocations == {1, 2}
ConcurrentConsumption ==
    {PowerReading(720, F(3)), PowerReading(727, F(-2))}
ConcurrentInjection == {<<>>, <<PowerReading(720, F(4))>>}
ConcurrentPriceMaps == {720 :> F(100)}
\* the arguments of one invocation of either calculator
ConcurrentArguments ==
    [calculator : {"Eco"}, year : Years, month : Months,
     consumption_readings :
         Lists(ConcurrentConsumption, MaxConcurrentReadings),
     injection_readings : ConcurrentInjection,
     epex_prices : ConcurrentPriceMaps]
    \cup
    [calculator : {"Fixed"}, year : Years, month : Months,
     consumption_readings :
         Lists(ConcurrentConsumption, MaxConcurrentReadings),
     injection_readings : ConcurrentInjection,
     epex_prices : {<< >>}]

\* the class attributes of the two calculators
ClassAttributes ==
    [Eco |->
        [ECOPOWER_SUBSCRIPTION |-> Eco_ECOPOWER_SUBSCRIPTION,
         FLUVIUS_SUBSCRIPTION |-> Eco_FLUVIUS_SUBSCRIPTION,
         CONSUMPTION_COEFFICIENT |-> Eco_CONSUMPTION_COEFFICIENT,
         CONSUMPTION_FIXED |-> Eco_CONSUMPTION_FIXED,
         INJECTION_COEFFICIENT |-> Eco_INJECTION_COEFFICIENT,
         INJECTION_FIXED |-> Eco_INJECTION_FIXED,
         DISTRIBUTION_TARIFF |-> Eco_DISTRIBUTION_TARIFF,
         INJECTION_TARIFF |-> Eco_INJECTION_TARIFF,
         GSC_TARIFF |-> Eco_GSC_TARIFF,
         WKK_TARIFF |-> Eco_WKK_TARIFF,
         CAPACITY_TARIFF_YEARLY |-> Eco_CAPACITY_TARIFF_YEARLY],
     Fixed |->
        [ECOPOWER_SUBSCRIPTION |-> Fixed_ECOPOWER_SUBSCRIPTION,
         FLUVIUS_SUBSCRIPTION |-> Fixed_FLUVIUS_SUBSCRIPTION,
         ENERGY_RATE |-> Fixed_ENERGY_RATE,
         INJECTION_RATE |-> Fixed_INJECTION_RATE,
         DISTRIBUTION_TARIFF |-> Fixed_DISTRIBUTION_TARIFF,
         INJECTION_TARIFF |-> Fixed_INJECTION_TARIFF,
         GSC_TARIFF |-> Fixed_GSC_TARIFF,
         WKK_TARIFF |-> Fixed_WKK_TARIFF,
         CAPACITY_TARIFF_YEARLY |-> Fixed_CAPACITY_TARIFF_YEARLY,
         ENERGY_CONTRIBUTION |-> Fixed_ENERGY_CONTRIBUTION,
         EXCISE_TIER_1 |-> Fixed_EXCISE_TIER_1,
         EXCISE_TIER_2 |-> Fixed_EXCISE_TIER_2,
         EXCISE_TIER_3 |-> Fixed_EXCISE_TIER_3,
         EXCISE_TIER_4 |-> Fixed_EXCISE_TIER_4,
         ENERGY_FUND_MONTHLY |-> Fixed_ENERGY_FUND_MONTHLY]]

\* the locals of calculate_quarterly_energy_costs and of
\* aggregate_energy_data before their loops
Eco_locals ==
    [total_energy_cost |-> FZero, total_energy_revenue |-> FZero,
     total_kwh_delivered |-> FZero, total_kwh_returned |-> FZero,
     max_power_kw |-> FZero]
Fixed_locals ==
    [total_kwh_delivered |-> FZero, total_kwh_returned |-> FZero,
     max_power_kw |-> FZero]

\* the frame of an invocation that has just been entered
Frame(arguments) ==
    [calculator |-> arguments.calculator,
     year |-> arguments.year, month |-> arguments.month,
     consumption_readings |-> arguments.consumption_readings,
     injection_readings |-> arguments.injection_readings,
     epex_prices |-> arguments.epex_prices,
     pc |-> "consumption", i |-> 1,
     locals |-> IF arguments.calculator = "Eco" THEN Eco_locals
                ELSE Fixed_locals]

\* what calculate_monthly_cost builds from the locals once the loops are done
Eco_components(year, month, locals) ==
    MonthlyCostBreakdown(
        year, month,
        Eco_calculate_fixed_cost,
        locals.total_energy_cost,
        locals.total_energy_revenue,
        Eco_calculate_distribution_cost(locals.total_kwh_delivered),
        Eco_calculate_injection_cost(locals.total_kwh_returned),
        Eco_calculate_gsc_cost(locals.total_kwh_delivered),
        Eco_calculate_wkk_cost(locals.total_kwh_delivered),
        Eco_calculate_monthly_capacity_cost(locals.max_power_kw),
        locals.total_kwh_delivered,
        locals.total_kwh_returned,
        locals.max_power_kw)
Fixed_components(year, month, locals) ==
    MonthlyCostBreakdown(
        year, month,
        Fixed_calculate_fixed_cost,
        FAdd(FAdd(Fixed_calculate_energy_cost(locals.total_kwh_delivered),
                  Fixed_calculate_energy_contribution(
                      locals.total_kwh_delivered)),
             Fixed_calculate_excise_tax(locals.total_kwh_delivered)),
        Fixed_calculate_energy_revenue(locals.total_kwh_returned),
        Fixed_calculate_distribution_cost(locals.total_kwh_delivered),
        Fixed_calculate_injection_cost(locals.total_kwh_returned),
        Fixed_calculate_gsc_cost(locals.total_kwh_delivered),
        Fixed_calculate_wkk_cost(locals.total_kwh_delivered),
        Fixed_calculate_monthly_capacity_cost(locals.max_power_kw),
        locals.total_kwh_delivered,
        locals.total_kwh_returned,
        locals.max_power_kw)

\* mutant: the result is cached per (calculator, year, month): an invocation
\* returns what an earlier one for the same month returned
ReturnValue_cached(frames, results, k) ==
    LET frame == frames[k]
        hits == {j \in DOMAIN frames :
                    /\ j # k /\ results[j].kind = "breakdown"
                    /\ frames[j].calculator = frame.calculator
                    /\ frames[j].year = frame.year
                    /\ frames[j].month = frame.month}
    IN  IF hits # {} THEN results[CHOOSE j \in hits : TRUE].value
        ELSE IF frame.calculator = "Eco"
        THEN Eco_components(frame.year, frame.month, frame.locals)
        ELSE Fixed_components(frame.year, frame.month, frame.locals)
\* the breakdown invocation k returns: built from its own locals
ReturnValue(frames, results, k) ==
    LET frame == frames[k]
    IN  IF frame.calculator = "Eco"
        THEN Eco_components(frame.year, frame.month, frame.locals)
        ELSE Fixed_components(frame.year, frame.month, frame.locals)

InvokeConcurrently ==
    /\ call.op = "idle"
    /\ \E first \in ConcurrentArguments, second \in ConcurrentArguments :
         /\ call' = [op |-> "concurrent",
                     arguments |-> <<first, second>>,
                     frames |-> <<Frame(first), Frame(second)>>,
                     class_attributes |-> ClassAttributes]
         /\ returned' = [kind |-> "concurrent",
                         values |-> <<[kind |-> "running"],
                                      [kind |-> "running"]>>]

\* one iteration of "for reading in consumption_readings" of invocation k
ConsumptionIteration(k) ==
    /\ call.op = "concurrent"
    /\ LET frame == call.frames[k]
       IN  /\ frame.pc = "consumption"
           /\ frame.i <= Len(frame.consumption_readings)
           /\ call' =
                [call EXCEPT
                   !.frames[k].locals =
                       IF frame.calculator = "Eco"
                       THEN Eco_consumption_step(
                                @, frame.consumption_readings[frame.i],
                                frame.epex_prices)
                       ELSE Fixed_consumption_step(
                                @, frame.consumption_readings[frame.i]),
                   !.frames[k].i = @ + 1]
    /\ UNCHANGED returned

\* the consumption loop of invocation k is exhausted
ConsumptionDone(k) ==
    /\ call.op = "concurrent"
    /\ call.frames[k].pc = "consumption"
    /\ call.frames[k].i > Len(call.frames[k].consumption_readings)
    /\ call' = [call EXCEPT !.frames[k].pc = "injection", !.frames[k].i = 1]
    /\ UNCHANGED returned

\* one iteration of "for reading in injection_readings" of invocation k
InjectionIteration(k) ==
    /\ call.op = "concurrent"
    /\ LET frame == call.frames[k]
       IN  /\ frame.pc = "injection"
           /\ frame.i <= Len(frame.injection_readings)
           /\ call' =
                [call EXCEPT
                   !.frames[k].locals =
                       IF frame.calculator = "Eco"
                       THEN Eco_injection_step(
                                @, frame.injection_readings[frame.i],
                                frame.epex_prices)
                       ELSE Fixed_injection_step(
                                @, frame.injection_readings[frame.i]),
                   !.frames[k].i = @ + 1]
    /\ UNCHANGED returned

\* the injection loop of invocation k is exhausted: the components are
\* computed and the breakdown is returned
Return(k) ==
    /\ call.op = "concurrent"
    /\ call.frames[k].pc = "injection"
    /\ call.frames[k].i > Len(call.frames[k].injection_readings)
    /\ call' = [call EXCEPT !.frames[k].pc = "returned"]
    /\ returned' =
         [returned EXCEPT
            !.values[k] =
                [kind |-> "breakdown",
                 value |-> ReturnValue(call.frames, returned.values, k)]]

\* both invocations have returned and the caller drops the results
Join ==
    /\ call.op = "concurrent"
    /\ \A k \in Invocations : call.frames[k].pc = "returned"
    /\ call' = [op |-> "idle"]
    /\ returned' = [kind |-> "none"]

NextConcurrent ==
    \/ InvokeConcurrently
    \/ \E k \in Invocations : ConsumptionIteration(k)
    \/ \E k \in Invocations : ConsumptionDone(k)
    \/ \E k \in Invocations : InjectionIteration(k)
    \/ \E k \in Invocations : Return(k)
    \/ Join

SpecConcurrent == Init /\ [][NextConcurrent]_vars

FromConcurrent == call.op = "concurrent"

FixedComponents ==
    {"Fixed.calculate_energy_cost", "Fixed.calculate_energy_revenue",
     "Fixed.calculate_energy_contribution",
     "Fixed.calculate_distribution_cost", "Fixed.calculate_injection_cost",
     "Fixed.calculate_gsc_cost", "Fixed.calculate_wkk_cost"}
FromFixedComponent == call.op \in FixedComponents

(***************************************************************************)
(* The services and the timestamp utility: a call of floor_to_15_minutes   *)
(* on a datetime, and a call of either service for a (year, month) with    *)
(* repositories holding any lists.                                         *)
(***************************************************************************)
\* the most entries the repositories of one service call hold, all lists
\* taken together
MaxFetched == 2

\* the arguments of floor_to_15_minutes: every minute of three hours of two
\* days, naive and aware
Datetimes ==
    [year : {2025}, month : {10}, day : {1, 31}, hour : {0, 12, 23},
     minute : 0..59, second : {0, 23, 42, 59}, microsecond : {0, 999999},
     tzinfo : {"None", "UTC", "+02:00"}]
\* the years the services are asked for, the last years of datetime included
ServiceYears == {2024, 2025, 9998, 9999}
ServiceMonths == 1..12
FetchedConsumption == {PowerReading(720, F(3)), PowerReading(727, F(-2))}
FetchedInjection == {PowerReading(720, F(4))}
FetchedPrices ==
    {EpexPrice(720, F(100)), EpexPrice(720, F(-50)), EpexPrice(727, F(100))}
\* the repository methods that may fail in a call
PowerRepositoryMethods ==
    {"get_consumption_readings", "get_injection_readings"}
PriceRepositoryMethods == {"get_prices"}

CallFloorTo15Minutes ==
    /\ call.op = "idle"
    /\ \E dt \in Datetimes :
         /\ call' = [op |-> "floor_to_15_minutes", dt |-> dt]
         /\ returned' = floor_to_15_minutes(dt)

CallEcoService ==
    /\ call.op = "idle"
    /\ \E year \in ServiceYears, month \in ServiceMonths,
          consumption_readings \in Lists(FetchedConsumption, MaxFetched) :
         \E injection_readings \in
                Lists(FetchedInjection,
                      MaxFetched - Len(consumption_readings)) :
           \E prices \in
                  Lists(FetchedPrices,
                        MaxFetched - Len(consumption_readings)
                                   - Len(injection_readings)),
              power_raises \in SUBSET PowerRepositoryMethods,
              price_raises \in SUBSET PriceRepositoryMethods :
             LET power_repository ==
                     [consumption_readings |-> consumption_readings,
                      injection_readings |-> injection_readings,
                      raises |-> power_raises]
                 price_repository ==
                     [prices |-> prices, raises |-> price_raises]
             IN  \E done \in {EcoService_calculate_monthly_cost(
                                  year, month, power_repository,
                                  price_repository)} :
                   /\ call' = [op |-> "EcoService.calculate_monthly_cost",
                               year |-> year, month |-> month,
                               power_repository |-> power_repository,
                               price_repository |-> price_repository,
                               trace |-> done.trace,
                               fetches |-> FetchesOf(done.trace)]
                   /\ returned' = done.result

CallFixedService ==
    /\ call.op = "idle"
    /\ \E year \in ServiceYears, month \in ServiceMonths,
          consumption_readings \in Lists(FetchedConsumption, MaxFetched) :
         \E injection_readings \in
                Lists(FetchedInjection,
                      MaxFetched - Len(consumption_readings)),
            power_raises \in SUBSET PowerRepositoryMethods :
           LET power_repository ==
                   [consumption_readings |-> consumption_readings,
                    injection_readings |-> injection_readings,
                    raises |-> power_raises]
           IN  \E done \in {FixedService_calculate_monthly_cost(
                                year, month, power_repository)} :
                 /\ call' = [op |-> "FixedService.calculate_monthly_cost",
                             year |-> year, month |-> month,
                             power_repository |-> power_repository,
                             trace |-> done.trace,
                             fetches |-> FetchesOf(done.trace)]
                 /\ returned' = done.result

NextServices ==
    \/ CallFloorTo15Minutes
    \/ CallEcoService
    \/ CallFixedService
    \/ Discard

SpecServices == Init /\ [][NextServices]_vars

FromFloor == call.op = "floor_to_15_minutes"
FromEcoService == call.op = "EcoService.calculate_monthly_cost"
FromFixedService == call.op = "FixedService.calculate_monthly_cost"
FromService == FromEcoService \/ FromFixedService

FromCostRate == call.op = "Eco.calculate_energy_cost_per_kwh"
FromRevenueRate == call.op = "Eco.calculate_energy_revenue_per_kwh"
\* what the predicates below speak about
IsBreakdown == returned.kind = "breakdown"
FromEco == call.op = "Eco.calculate_monthly_cost"
FromFixed == call.op = "Fixed.calculate_monthly_cost"
FromExcise == call.op = "Fixed.calculate_excise_tax"

(***************************************************************************)
(* The claims.                                                             *)
(***************************************************************************)

\* C1: the total_cost of every breakdown, built directly or returned by a
\* calculator, is fixed_cost + energy_cost + distribution_cost +
\* injection_cost + gsc_cost + wkk_cost + capacity_cost - energy_revenue,
\* negative field values included.
RECURSIVE SumOf(_)
SumOf(floats) ==
    IF floats = <<>> THEN FZero
    ELSE FAdd(SumOf(SubSeq(floats, 1, Len(floats) - 1)), floats[Len(floats)])
C1_TotalCostIdentity ==
    IsBreakdown =>
        LET b == returned.value
        IN  total_cost(b) =
                FSub(SumOf(<<b.fixed_cost, b.energy_cost, b.distribution_cost,
                             b.injection_cost, b.gsc_cost, b.wkk_cost,
                             b.capacity_cost>>),
                     b.energy_revenue)
\* a calculator's breakdown with a negative component and a revenue
C1_Witness ==
    /\ IsBreakdown /\ FromEco
    /\ FLess(returned.value.energy_cost, FZero)
    /\ returned.value.energy_revenue # FZero

\* C2: calculate_excise_tax is the four-bracket cumulative function with
\* r1 = r2 = 0.04748, r3 = 0.04546, r4 = 0.04478, and excise(1000) = 47.48.
r1 == Dec7(474800)
r2 == Dec7(474800)
r3 == Dec7(454600)
r4 == Dec7(447800)
FourBracket(total_kwh) ==
    IF FLeq(total_kwh, F(3000))
    THEN FMul(total_kwh, r1)
    ELSE IF FLess(F(3000), total_kwh) /\ FLeq(total_kwh, F(20000))
    THEN FAdd(FMul(F(3000), r1), FMul(FSub(total_kwh, F(3000)), r2))
    ELSE IF FLess(F(20000), total_kwh) /\ FLeq(total_kwh, F(50000))
    THEN SumOf(<<FMul(F(3000), r1), FMul(F(17000), r2),
                 FMul(FSub(total_kwh, F(20000)), r3)>>)
    ELSE SumOf(<<FMul(F(3000), r1), FMul(F(17000), r2), FMul(F(30000), r3),
                 FMul(FSub(total_kwh, F(50000)), r4)>>)
C2_ExciseFourBrackets ==
    FromExcise =>
        /\ returned.value = FourBracket(call.total_kwh)
        /\ call.total_kwh = F(1000) => returned.value = Dec7(474800000)
\* the top bracket is reached
C2_Witness ==
    FromExcise /\ FLess(F(50000), call.total_kwh)
        /\ returned.value = FourBracket(call.total_kwh)

\* C3: at each tier boundary b in {3000, 20000, 50000} the lower-tier branch
\* computes excise(b) (the upper bound is inclusive) and the result equals
\* the upper-tier formula with zero excess; excise(3000) = 3000 * r1.
C3_ExciseBoundaries ==
    FromExcise =>
        /\ call.total_kwh = F(3000) =>
             /\ Fixed_excise_branch(call.total_kwh) = 1
             /\ returned.value = FMul(F(3000), r1)
             /\ returned.value =
                    FAdd(FMul(F(3000), r1), FMul(FZero, r2))
        /\ call.total_kwh = F(20000) =>
             /\ Fixed_excise_branch(call.total_kwh) = 2
             /\ returned.value =
                    SumOf(<<FMul(F(3000), r1), FMul(F(17000), r2),
                            FMul(FZero, r3)>>)
        /\ call.total_kwh = F(50000) =>
             /\ Fixed_excise_branch(call.total_kwh) = 3
             /\ returned.value =
                    SumOf(<<FMul(F(3000), r1), FMul(F(17000), r2),
                            FMul(F(30000), r3), FMul(FZero, r4)>>)
C3_Witness ==
    FromExcise /\ call.total_kwh = F(20000)
        /\ Fixed_excise_branch(call.total_kwh) = 2

\* C4: calculate_excise_tax is monotonically non-decreasing: a <= b implies
\* excise(a) <= excise(b), across and within tiers and below 0.
C4_ExciseMonotone ==
    FromExcise =>
        \A b \in KwhValues :
            FLeq(call.total_kwh, b) =>
                FLeq(returned.value, Fixed_calculate_excise_tax(b))
\* a negative a, compared with arguments of every tier
C4_Witness ==
    FromExcise /\ FLess(call.total_kwh, FZero)
        /\ \E b \in KwhValues : FLess(F(50000), b)

\* C5 as stated: for total_kwh = 25000 the excise tax is
\* 3000*0.04748 + 17000*0.04748 + 5000*0.04546, and that amount is 1174.3.
C5_Original ==
    (FromExcise /\ call.total_kwh = F(25000)) =>
        /\ returned.value =
               SumOf(<<FMul(F(3000), Dec7(474800)), FMul(F(17000), Dec7(474800)),
                       FMul(F(5000), Dec7(454600))>>)
        /\ returned.value = FAdd(F(1174), Dec7(3000000))
\* C5 as amended: for total_kwh = 25000 the excise tax is
\* 3000*0.04748 + 17000*0.04748 + 5000*0.04546, and that amount is 1176.9.
C5_ExciseOf25000 ==
    (FromExcise /\ call.total_kwh = F(25000)) =>
        /\ returned.value =
               SumOf(<<FMul(F(3000), Dec7(474800)), FMul(F(17000), Dec7(474800)),
                       FMul(F(5000), Dec7(454600))>>)
        /\ returned.value = FAdd(F(1176), Dec7(9000000))
C5_Witness ==
    FromExcise /\ call.total_kwh = F(25000)
        /\ Fixed_excise_branch(call.total_kwh) = 3

\* C6: in the dynamic calculator energy_cost is the sum over the consumption
\* readings of (0.00102*p + 0.004) * (power_kw*0.25) and energy_revenue the
\* sum over the injection readings of (0.00098*p - 0.015) * (power_kw*0.25),
\* p being the price stored under the reading's own timestamp (0.0 when the
\* timestamp is no key); at p = 100 the rates are 0.106 and 0.083.
PriceAt(epex_prices, timestamp) ==
    IF timestamp \in DOMAIN epex_prices THEN epex_prices[timestamp] ELSE FZero
CostTerms(readings, epex_prices) ==
    [i \in 1..Len(readings) |->
        FMul(FAdd(FMul(Dec7(10200), PriceAt(epex_prices, readings[i].timestamp)),
                  Dec7(40000)),
             FMul(readings[i].power_kw, Dec7(2500000)))]
RevenueTerms(readings, epex_prices) ==
    [i \in 1..Len(readings) |->
        FMul(FSub(FMul(Dec7(9800), PriceAt(epex_prices, readings[i].timestamp)),
                  Dec7(150000)),
             FMul(readings[i].power_kw, Dec7(2500000)))]
C6_EnergyCostAndRevenueSums ==
    /\ Eco_calculate_energy_cost_per_kwh(F(100)) = Dec7(1060000)
    /\ Eco_calculate_energy_revenue_per_kwh(F(100)) = Dec7(830000)
    /\ FromEco =>
         /\ returned.value.energy_cost =
                SumOf(CostTerms(call.consumption_readings, call.epex_prices))
         /\ returned.value.energy_revenue =
                SumOf(RevenueTerms(call.injection_readings, call.epex_prices))
\* a consumption and an injection reading at different timestamps that are
\* priced differently
C6_Witness ==
    /\ FromEco
    /\ DOMAIN call.epex_prices = Timestamps
    /\ \E c \in 1..Len(call.consumption_readings),
          i \in 1..Len(call.injection_readings) :
         LET tc == call.consumption_readings[c].timestamp
             ti == call.injection_readings[i].timestamp
         IN  tc # ti /\ call.epex_prices[tc] # call.epex_prices[ti]

\* C7: a reading whose timestamp has no entry in the price map is no error:
\* the dynamic calculator returns the breakdown it would return if the map
\* held an explicit 0.0 for that timestamp (0.004 per kWh consumed, -0.015
\* per kWh injected).
Unpriced(readings, epex_prices) ==
    \A i \in 1..Len(readings) : readings[i].timestamp \notin DOMAIN epex_prices
C7_MissingPriceIsZeroPrice ==
    FromEco =>
        /\ returned.kind = "breakdown"
        /\ \A t \in Timestamps \ DOMAIN call.epex_prices :
             Eco_calculate_monthly_cost(
                 call.year, call.month, call.consumption_readings,
                 call.injection_readings, call.epex_prices @@ (t :> FZero))
             = returned.value
        /\ Unpriced(call.consumption_readings, call.epex_prices) =>
             returned.value.energy_cost =
                 FMul(Dec7(40000), returned.value.total_kwh_delivered)
        /\ Unpriced(call.injection_readings, call.epex_prices) =>
             returned.value.energy_revenue =
                 FMul(Dec7(-150000), returned.value.total_kwh_returned)
\* a consumption and an injection reading without a price, while another
\* timestamp is priced
C7_Witness ==
    /\ FromEco
    /\ DOMAIN call.epex_prices # {}
    /\ \E c \in 1..Len(call.consumption_readings) :
         call.consumption_readings[c].timestamp \notin DOMAIN call.epex_prices
    /\ \E i \in 1..Len(call.injection_readings) :
         call.injection_readings[i].timestamp \notin DOMAIN call.epex_prices

\* C8 as stated: for readings with non-negative power and any price map,
\* removing one timestamp's entry from the price map yields a total_cost and
\* an energy_cost less than or equal to the ones with the entry present.
NonNegative(readings) ==
    \A i \in 1..Len(readings) : FLeq(FZero, readings[i].power_kw)
Without(epex_prices, t) ==
    [x \in DOMAIN epex_prices \ {t} |-> epex_prices[x]]
EcoWithout(t) ==
    Eco_calculate_monthly_cost(
        call.year, call.month, call.consumption_readings,
        call.injection_readings, Without(call.epex_prices, t))
C8_Original ==
    (/\ FromEco
     /\ NonNegative(call.consumption_readings)
     /\ NonNegative(call.injection_readings)) =>
        \A t \in DOMAIN call.epex_prices :
            /\ FLeq(total_cost(EcoWithout(t)), total_cost(returned.value))
            /\ FLeq(EcoWithout(t).energy_cost, returned.value.energy_cost)
\* C8 as amended: for readings with non-negative power, removing an entry
\* whose price is non-negative yields an energy_cost and an energy_revenue
\* less than or equal to the ones with the entry present; total_cost is less
\* than or equal when, in addition, no injection reading has that timestamp.
C8_MissingNonNegativePriceLowers ==
    (/\ FromEco
     /\ NonNegative(call.consumption_readings)
     /\ NonNegative(call.injection_readings)) =>
        \A t \in DOMAIN call.epex_prices :
            FLeq(FZero, call.epex_prices[t]) =>
                /\ FLeq(EcoWithout(t).energy_cost, returned.value.energy_cost)
                /\ FLeq(EcoWithout(t).energy_revenue,
                        returned.value.energy_revenue)
                /\ (\A i \in 1..Len(call.injection_readings) :
                        call.injection_readings[i].timestamp # t) =>
                     FLeq(total_cost(EcoWithout(t)), total_cost(returned.value))
\* removing a positive price strictly lowers the energy_cost
C8_Witness ==
    /\ FromEco
    /\ NonNegative(call.consumption_readings)
    /\ NonNegative(call.injection_readings)
    /\ \E t \in DOMAIN call.epex_prices :
         /\ FLess(FZero, call.epex_prices[t])
         /\ FLess(EcoWithout(t).energy_cost, returned.value.energy_cost)

\* C9: with total_kwh_delivered == 0 both average prices are 0.0 whatever
\* the other fields (no division fault); with total_kwh_delivered != 0,
\* average_price_per_kwh_ex_vat is total_cost / total_kwh_delivered.
C9_AveragePriceZeroGuard ==
    IsBreakdown =>
        LET b  == returned.value
            ex == average_price_per_kwh_ex_vat(b)
        IN  /\ b.total_kwh_delivered = FZero =>
                 /\ ex = QOfFloat(FZero)
                 /\ average_price_per_kwh_incl_vat(b) = QOfFloat(FZero)
            /\ b.total_kwh_delivered # FZero =>
                 /\ ex.ok
                 /\ BigMul(ex.num, b.total_kwh_delivered) =
                        BigMul(total_cost(b), ex.den)
\* nothing delivered, but a cost
C9_Witness ==
    /\ IsBreakdown
    /\ returned.value.total_kwh_delivered = FZero
    /\ total_cost(returned.value) # FZero
    /\ returned.value.energy_revenue # FZero

FromCalculator == FromEco \/ FromFixed
Powers(readings) == [i \in 1..Len(readings) |-> readings[i].power_kw]
AllCopies(readings) ==
    \A i \in 1..Len(readings) : readings[i] = readings[1]
C11_AggregateSumsEveryReading ==
    FromCalculator =>
        LET b == returned.value
            c == call.consumption_readings
            i == call.injection_readings
        IN  /\ b.total_kwh_delivered = FMul(Dec7(2500000), SumOf(Powers(c)))
            /\ b.total_kwh_returned = FMul(Dec7(2500000), SumOf(Powers(i)))
            /\ (c # <<>> /\ AllCopies(c)) =>
                 b.total_kwh_delivered =
                     FMul(F(Len(c)), FMul(c[1].power_kw, Dec7(2500000)))
            /\ (i # <<>> /\ AllCopies(i)) =>
                 b.total_kwh_returned =
                     FMul(F(Len(i)), FMul(i[1].power_kw, Dec7(2500000)))
\* the fixed calculator given the same consumption reading twice
C11_Witness ==
    /\ FromFixed
    /\ Len(call.consumption_readings) >= 2
    /\ AllCopies(call.consumption_readings)
    /\ call.consumption_readings[1].power_kw # FZero

\* C12 as stated: in both calculators peak_power_kw is the maximum power_kw
\* over the consumption readings, for every non-empty consumption sequence
\* whatever the values of its readings.
IsMaxOf(x, floats) ==
    /\ \E k \in 1..Len(floats) : floats[k] = x
    /\ \A k \in 1..Len(floats) : FLeq(floats[k], x)
C12_Original ==
    (FromCalculator /\ call.consumption_readings # <<>>) =>
        IsMaxOf(returned.value.peak_power_kw, Powers(call.consumption_readings))
\* C12 as amended: in both calculators peak_power_kw is the maximum of 0.0
\* and the power_kw of the consumption readings (the maximum power_kw when
\* some consumption reading is not negative, 0.0 when all are negative or
\* there is none), and is independent of the injection stream.
C12_PeakIsMaxOfZeroAndConsumption ==
    FromCalculator =>
        IsMaxOf(returned.value.peak_power_kw,
                <<FZero>> \o Powers(call.consumption_readings))
\* an injection reading above every consumption reading
C12_Witness ==
    /\ FromEco
    /\ call.consumption_readings # <<>>
    /\ \E i \in 1..Len(call.injection_readings) :
         /\ FLess(FZero, returned.value.peak_power_kw)
         /\ FLess(returned.value.peak_power_kw,
                  call.injection_readings[i].power_kw)

\* C13: with empty consumption and injection sequences (and any price map
\* for the dynamic calculator) both calculators return total_kwh_delivered =
\* total_kwh_returned = peak_power_kw = 0, every variable component equal to
\* 0, and total_cost == fixed_cost.
EmptyInput ==
    /\ FromCalculator
    /\ call.consumption_readings = <<>>
    /\ call.injection_readings = <<>>
C13_EmptyInputOnlyFixedCost ==
    EmptyInput =>
        LET b == returned.value
        IN  /\ \A x \in {b.total_kwh_delivered, b.total_kwh_returned,
                         b.peak_power_kw, b.energy_cost, b.energy_revenue,
                         b.distribution_cost, b.injection_cost, b.gsc_cost,
                         b.wkk_cost, b.capacity_cost} : x = FZero
            /\ total_cost(b) = b.fixed_cost
\* the dynamic calculator with no readings and a non-empty price map
C13_Witness ==
    /\ EmptyInput /\ FromEco
    /\ call.epex_prices # << >>
    /\ returned.value.fixed_cost # FZero

\* C14: for the same consumption and injection sequences, and any price map
\* given to the dynamic calculator, the two calculators return identical
\* total_kwh_delivered, total_kwh_returned, peak_power_kw, distribution_cost
\* (delivered*0.0704386), injection_cost (returned*0.0017510), gsc_cost
\* (delivered*0.011), wkk_cost (delivered*0.00392) and capacity_cost
\* (peak*56.93/12).
SharedFields ==
    {"total_kwh_delivered", "total_kwh_returned", "peak_power_kw",
     "distribution_cost", "injection_cost", "gsc_cost", "wkk_cost",
     "capacity_cost"}
C15_FixedEnergyCostAndRevenue ==
    FromFixed =>
        LET b == returned.value
            d == b.total_kwh_delivered
        IN  /\ b.energy_cost =
                   FAdd(FAdd(FMul(d, Dec7(1187000)), FMul(d, Dec7(19261))),
                        FourBracket(d))
            /\ b.energy_revenue = FMul(b.total_kwh_returned, Dec7(200000))
            /\ FLeq(FZero, b.total_kwh_returned) =>
                 FLeq(FZero, b.energy_revenue)
\* energy delivered into the second excise bracket, and energy returned
C15_Witness ==
    /\ FromFixed
    /\ FLess(Kwh3000, returned.value.total_kwh_delivered)
    /\ FLess(FZero, returned.value.total_kwh_returned)

\* C16: fixed_cost depends on no input: every breakdown returned by the
\* dynamic calculator through MonthlyCostCalculationService has fixed_cost =
\* 7.0 and every breakdown returned by the fixed calculator through its
\* service has fixed_cost = 7.005, for all years, months, readings and prices.
C16_FixedCostIsConstant ==
    /\ (FromEcoService /\ IsBreakdown) => returned.value.fixed_cost = F(7)
    /\ (FromFixedService /\ IsBreakdown) =>
            returned.value.fixed_cost = Dec7(70050000)
\* the fixed service asked for a month of another year, with readings and an
\* energy cost
C16_Witness ==
    /\ FromFixedService /\ IsBreakdown
    /\ call.year = 9998 /\ call.month = 7
    /\ call.power_repository.consumption_readings # <<>>
    /\ returned.value.energy_cost # FZero

\* C17: for every input datetime floor_to_15_minutes returns a naive
\* datetime with the year, month, day and hour of the input's wall-clock
\* fields (the offset is dropped, not converted), the minute the largest
\* multiple of 15 not above the input's, and second = microsecond = 0; the
\* result is not later than the input's wall-clock time and less than 15
\* minutes earlier (12:07:23 -> 12:00:00, 12:16:42 -> 12:15:00, 12:47:59 ->
\* 12:45:00).
WallSeconds(dt) == (dt.hour * 60 + dt.minute) * 60 + dt.second
Clock(dt) == <<dt.hour, dt.minute, dt.second>>
C17_FloorKeepsWallClockQuarter ==
    FromFloor =>
        /\ returned.kind = "datetime"
        /\ LET dt == call.dt
               r == returned.value
           IN  /\ r.tzinfo = "None"
               /\ r.year = dt.year /\ r.month = dt.month /\ r.day = dt.day
               /\ r.hour = dt.hour
               /\ r.minute \in {0, 15, 30, 45}
               /\ r.minute <= dt.minute /\ dt.minute < r.minute + 15
               /\ r.second = 0 /\ r.microsecond = 0
               /\ WallSeconds(dt) - WallSeconds(r) \in 0..899
               /\ Clock(dt) = <<12, 7, 23>> => Clock(r) = <<12, 0, 0>>
               /\ Clock(dt) = <<12, 16, 42>> => Clock(r) = <<12, 15, 0>>
               /\ Clock(dt) = <<12, 47, 59>> => Clock(r) = <<12, 45, 0>>
\* 12:47:59.999999 with an offset of two hours
C17_Witness ==
    /\ FromFloor /\ returned.kind = "datetime"
    /\ call.dt.tzinfo = "+02:00"
    /\ Clock(call.dt) = <<12, 47, 59>> /\ call.dt.microsecond = 999999
    /\ Clock(returned.value) = <<12, 45, 0>>

\* C18: floor_to_15_minutes is total and idempotent: it raises for no
\* datetime, floor(floor(x)) == floor(x) for every x, and floor(x) == x for
\* every naive x on the 15-minute grid with zero seconds and microseconds.
OnGrid(dt) ==
    /\ dt.tzinfo = "None"
    /\ dt.minute % 15 = 0 /\ dt.second = 0 /\ dt.microsecond = 0
C18_FloorTotalAndIdempotent ==
    FromFloor =>
        /\ returned.kind = "datetime"
        /\ floor_to_15_minutes(returned.value) = returned
        /\ OnGrid(call.dt) => returned.value = call.dt
\* the last quarter of the day, floored from 23:59:59
C18_Witness ==
    /\ FromFloor /\ returned.kind = "datetime"
    /\ Clock(call.dt) = <<23, 59, 59>>
    /\ Clock(returned.value) = <<23, 45, 0>>

\* C19 as stated: for every year and every month in 1..12 both services
\* request the range from the first day of (year, month) at 00:00 to the
\* first day of (year, month+1) at 00:00, month 12 giving the first day of
\* (year+1, 1); start < end, both services compute the same range, and the
\* returned breakdown carries the requested year and month.
Midnight(year, month) ==
    [year |-> year, month |-> month, day |-> 1, hour |-> 0, minute |-> 0,
     second |-> 0, microsecond |-> 0, tzinfo |-> "None"]
NextMonth(year, month) ==
    IF month = 12 THEN Midnight(year + 1, 1) ELSE Midnight(year, month + 1)
Earlier(a, b) ==
    \/ a.year < b.year
    \/ a.year = b.year /\ a.month < b.month
RangeAsStated ==
    /\ returned # [kind |-> "raised", exception |-> "ValueError"]
    /\ call.fetches # <<>>
    /\ \A k \in 1..Len(call.fetches) :
         /\ call.fetches[k].start_date = Midnight(call.year, call.month)
         /\ call.fetches[k].end_date = NextMonth(call.year, call.month)
         /\ Earlier(call.fetches[k].start_date, call.fetches[k].end_date)
    /\ EcoService_date_range(call.year, call.month) =
           FixedService_date_range(call.year, call.month)
    /\ IsBreakdown =>
          /\ returned.value.year = call.year
          /\ returned.value.month = call.month
C19_Original == FromService => RangeAsStated
\* C19 as amended: the same, for every year in 1..9998 and every month in
\* 1..12, and for year 9999 and every month in 1..11.
C19_ServiceDateRange ==
    (FromService /\ ~(call.year = 9999 /\ call.month = 12)) => RangeAsStated
\* December of an ordinary year, through the dynamic service
C19_Witness ==
    /\ FromEcoService /\ IsBreakdown
    /\ call.year = 2025 /\ call.month = 12
    /\ call.fetches[3].end_date = Midnight(2026, 1)

\* C20 as stated: the per-kWh dynamic rates are strictly increasing in the
\* wholesale price: for all prices p1 < p2, negative prices included,
\* calculate_energy_cost_per_kwh(p1) < calculate_energy_cost_per_kwh(p2) and
\* calculate_energy_revenue_per_kwh(p1) < calculate_energy_revenue_per_kwh(p2).
RateOfCall(p) ==
    IF FromCostRate THEN Eco_calculate_energy_cost_per_kwh_binary64(p)
    ELSE Eco_calculate_energy_revenue_per_kwh_binary64(p)
C20_Original ==
    (FromCostRate \/ FromRevenueRate) =>
        \A p2 \in EpexPriceFloats :
            B64Less(call.epex_price_eur_mwh, p2) =>
                B64Less(returned.value, RateOfCall(p2))
\* C20 as amended: the per-kWh dynamic rates are non-decreasing in the
\* wholesale price: for all prices p1 < p2, negative prices included, the
\* cost rate at p1 is <= the cost rate at p2 and the revenue rate at p1 is
\* <= the revenue rate at p2; the inequality is strict for the tested
\* prices 50.0 < 150.0.
C20_RatesNonDecreasing ==
    (FromCostRate \/ FromRevenueRate) =>
        \A p2 \in EpexPriceFloats :
            B64Less(call.epex_price_eur_mwh, p2) =>
                /\ B64Leq(returned.value, RateOfCall(p2))
                /\ (call.epex_price_eur_mwh = B64OfInt(50)
                    /\ p2 = B64OfInt(150)) =>
                     B64Less(returned.value, RateOfCall(p2))
\* the cost rate at 50.0: below the rate at 150.0, equal to the rate at the
\* next float above 50.0
C20_Witness ==
    /\ FromCostRate
    /\ call.epex_price_eur_mwh = B64OfInt(50)
    /\ B64Less(returned.value, RateOfCall(B64OfInt(150)))
    /\ returned.value = RateOfCall(B64NextUp(B64OfInt(50)))
\* C21 as stated: the fixed tariff's per-kWh components are linear in
\* energy: for any k > 0 and any kwh, calculate_energy_cost(k*kwh) ==
\* k*calculate_energy_cost(kwh), and likewise distribution_cost, gsc_cost,
\* wkk_cost, energy_contribution, injection_cost and energy_revenue.
ScaleFactors ==
    {B64OfInt(n) : n \in {2, 3, 4, 7, 10}}
    \cup {B64OfDec7(n) : n \in {5000000, 15000000}}
ComponentOfCall(kwh) ==
    IF call.op = "Fixed.calculate_energy_cost"
    THEN Fixed_calculate_energy_cost_binary64(kwh)
    ELSE IF call.op = "Fixed.calculate_energy_revenue"
    THEN Fixed_calculate_energy_revenue_binary64(kwh)
    ELSE IF call.op = "Fixed.calculate_energy_contribution"
    THEN Fixed_calculate_energy_contribution_binary64(kwh)
    ELSE IF call.op = "Fixed.calculate_distribution_cost"
    THEN Fixed_calculate_distribution_cost_binary64(kwh)
    ELSE IF call.op = "Fixed.calculate_injection_cost"
    THEN Fixed_calculate_injection_cost_binary64(kwh)
    ELSE IF call.op = "Fixed.calculate_gsc_cost"
    THEN Fixed_calculate_gsc_cost_binary64(kwh)
    ELSE Fixed_calculate_wkk_cost_binary64(kwh)
C21_Original ==
    FromFixedComponent =>
        \A k \in ScaleFactors :
            ComponentOfCall(B64Mul(k, call.kwh)) = B64Mul(k, returned.value)
\* C21 as amended: for any k > 0 and any finite kwh (no product overflowing
\* or underflowing), each per-kWh component f satisfies f(k*kwh) ==
\* k*f(kwh) exactly when k is a power of two, and for every other k the two
\* sides agree up to floating-point rounding: they differ by at most 2^-50
\* times the magnitude of k*f(kwh).
IsPowerOfTwo(k) == ~k.neg /\ k.m = <<1>>
\* |a - b| <= 2^-50 * |b|
B64Within(a, b) ==
    LET e == B64MinExp(a, b)
        d == BigSub(B64Aligned(a, e), B64Aligned(b, e))
    IN  ~NatLess(B64Aligned(b, e).mag, NatShl(d.mag, 50))
C21_ComponentsLinearUpToRounding ==
    FromFixedComponent =>
        \A k \in ScaleFactors :
            LET scaled_input == ComponentOfCall(B64Mul(k, call.kwh))
                scaled_output == B64Mul(k, returned.value)
            IN  /\ B64Within(scaled_input, scaled_output)
                /\ IsPowerOfTwo(k) => scaled_input = scaled_output
\* the energy cost of 3.0 kWh: doubled exactly, tripled only up to rounding
C21_Witness ==
    /\ call.op = "Fixed.calculate_energy_cost"
    /\ call.kwh = B64OfInt(3)
    /\ ComponentOfCall(B64OfInt(6)) = B64Mul(B64OfInt(2), returned.value)
    /\ ComponentOfCall(B64OfInt(9)) # B64Mul(B64OfInt(3), returned.value)
    /\ B64Within(ComponentOfCall(B64OfInt(9)),
                 B64Mul(B64OfInt(3), returned.value))
\* C22: both calculators are total over their inputs: for readings with zero
\* or negative power_kw and for negative prices they return a breakdown
\* without raising, and the negative values are propagated arithmetically
\* into total_kwh_delivered, total_kwh_returned and every component derived
\* from them (no clamping, no rejection).
RECURSIVE B64SumOf(_)
B64SumOf(floats) ==
    IF floats = <<>> THEN B64OfInt(0)
    ELSE B64Add(B64SumOf(SubSeq(floats, 1, Len(floats) - 1)),
                floats[Len(floats)])
Energies(readings) ==
    [i \in 1..Len(readings) |->
        B64Mul(readings[i].power_kw, B64OfDec7(2500000))]
C22_TotalOverSignedInputs ==
    FromCalculator =>
        /\ returned.kind = "breakdown"
        /\ LET b == returned.value
               d == b.total_kwh_delivered
               r == b.total_kwh_returned
           IN  /\ d = B64SumOf(Energies(call.consumption_readings))
               /\ r = B64SumOf(Energies(call.injection_readings))
               /\ b.distribution_cost = B64Mul(d, B64OfDec7(704386))
               /\ b.gsc_cost = B64Mul(d, B64OfDec7(110000))
               /\ b.wkk_cost = B64Mul(d, B64OfDec7(39200))
               /\ b.injection_cost = B64Mul(r, B64OfDec7(17510))
               /\ FromFixed => b.energy_revenue = B64Mul(r, B64OfDec7(200000))
               /\ d.neg => /\ b.distribution_cost.neg
                           /\ b.gsc_cost.neg /\ b.wkk_cost.neg
               /\ r.neg => b.injection_cost.neg
               /\ (FromFixed /\ d.neg) => b.energy_cost.neg
               /\ (FromFixed /\ r.neg) => b.energy_revenue.neg
\* the dynamic calculator given a negative consumption, a zero and a
\* negative injection and a negative price: negative totals and components
C22_Witness ==
    /\ FromEco /\ IsBreakdown
    /\ \E i \in 1..Len(call.injection_readings) :
         call.injection_readings[i].power_kw = B64OfInt(0)
    /\ \E i \in 1..Len(call.injection_readings) :
         call.injection_readings[i].power_kw.neg
    /\ \E t \in DOMAIN call.epex_prices : call.epex_prices[t].neg
    /\ returned.value.total_kwh_delivered.neg
    /\ returned.value.total_kwh_returned.neg
    /\ returned.value.distribution_cost.neg
    /\ returned.value.injection_cost.neg
\* C23: the engine holds no shared mutable or cross-call state: in any
\* interleaving of concurrent invocations of either calculator each
\* invocation returns the breakdown it would return running alone, two
\* invocations with equal inputs return equal breakdowns, and no invocation
\* modifies its input sequences, its price map or any class-level constant.
Alone(arguments) ==
    IF arguments.calculator = "Eco"
    THEN Eco_calculate_monthly_cost(
             arguments.year, arguments.month, arguments.consumption_readings,
             arguments.injection_readings, arguments.epex_prices)
    ELSE Fixed_calculate_monthly_cost(
             arguments.year, arguments.month, arguments.consumption_readings,
             arguments.injection_readings)
HasReturned(k) == returned.values[k].kind = "breakdown"
C23_NoSharedState ==
    FromConcurrent =>
        /\ \A k \in Invocations :
             /\ HasReturned(k) =>
                    returned.values[k].value = Alone(call.arguments[k])
             /\ call.frames[k].consumption_readings =
                    call.arguments[k].consumption_readings
             /\ call.frames[k].injection_readings =
                    call.arguments[k].injection_readings
             /\ call.frames[k].epex_prices = call.arguments[k].epex_prices
        /\ \A j, k \in Invocations :
             (/\ HasReturned(j) /\ HasReturned(k)
              /\ call.arguments[j] = call.arguments[k]) =>
                 returned.values[j] = returned.values[k]
        /\ call.class_attributes = ClassAttributes
\* the second invocation started its loop before the first, which has
\* other readings, returned; both have returned, with different breakdowns
C23_Witness ==
    /\ FromConcurrent
    /\ HasReturned(1) /\ HasReturned(2)
    /\ call.arguments[1].calculator = call.arguments[2].calculator
    /\ call.arguments[1].consumption_readings #
           call.arguments[2].consumption_readings
    /\ Len(call.arguments[1].consumption_readings) = 2
    /\ Len(call.arguments[2].consumption_readings) = 2
    /\ returned.values[1] # returned.values[2]
\* C24 as stated: the aggregate and every cost component do not depend on
\* the order of the input sequences: for any permutation of the consumption
\* readings and any permutation of the injection readings, both calculators
\* return the same breakdown.  (Every permutation is a chain of exchanges of
\* two neighbours, and every list is the argument of some call, so the
\* formula compares each call with the calls one exchange away.)
Exchanged(readings, k) ==
    [readings EXCEPT ![k] = readings[k + 1], ![k + 1] = readings[k]]
Reorderings ==
    {<<Exchanged(call.consumption_readings, k), call.injection_readings>> :
        k \in 1..(Len(call.consumption_readings) - 1)}
    \cup
    {<<call.consumption_readings, Exchanged(call.injection_readings, k)>> :
        k \in 1..(Len(call.injection_readings) - 1)}
CalculatorOfCall(consumption_readings, injection_readings) ==
    IF FromEco
    THEN Eco_calculate_monthly_cost_binary64(
             call.year, call.month, consumption_readings, injection_readings,
             call.epex_prices)
    ELSE Fixed_calculate_monthly_cost_binary64(
             call.year, call.month, consumption_readings, injection_readings)
C24_Original ==
    FromCalculator =>
        \A r \in Reorderings : CalculatorOfCall(r[1], r[2]) = returned.value
\* C24 as amended: for any permutation of the consumption readings and any
\* permutation of the injection readings both calculators return the same
\* year, month, fixed_cost, peak_power_kw and capacity_cost, and the same
\* whole breakdown when each sequence has at most two readings.  For longer
\* sequences the sums are accumulated in sequence order and depend on it by
\* floating-point rounding only: total_kwh_delivered and total_kwh_returned
\* lie within n * 2^-53 * (the sum of |power_kw * 0.25|) of the exact sum,
\* n being the length of the sequence (below 10^7, no overflow).
OrderFreeFields ==
    {"year", "month", "fixed_cost", "peak_power_kw", "capacity_cost"}
RECURSIVE MinExponent(_)
MinExponent(floats) ==
    IF floats = <<>> THEN 0
    ELSE LET rest == MinExponent(Tail(floats))
         IN  IF Head(floats).e < rest THEN Head(floats).e ELSE rest
RECURSIVE ExactSum(_, _)
ExactSum(floats, e) ==
    IF floats = <<>> THEN BigZero
    ELSE BigAdd(B64Aligned(Head(floats), e), ExactSum(Tail(floats), e))
RECURSIVE ExactSumOfMagnitudes(_, _)
ExactSumOfMagnitudes(floats, e) ==
    IF floats = <<>> THEN <<>>
    ELSE NatAddC(B64Aligned(Head(floats), e).mag,
                 ExactSumOfMagnitudes(Tail(floats), e), 0)
\* |total - (exact sum of floats)| <= Len(floats) * 2^-53 * sum of |floats|
WithinRoundingOfSum(total, floats) ==
    \E e \in {MinExponent(<<total>> \o floats)} :
        LET error == BigSub(B64Aligned(total, e), ExactSum(floats, e))
        IN  ~NatLess(NatMulLimb(ExactSumOfMagnitudes(floats, e),
                                Len(floats), 0),
                     NatShl(error.mag, 53))
C24_OrderFreeUpToRounding ==
    FromCalculator =>
        /\ \A r \in Reorderings :
             \A other \in {CalculatorOfCall(r[1], r[2])} :
                /\ \A field \in OrderFreeFields :
                     other[field] = returned.value[field]
                /\ (/\ Len(call.consumption_readings) <= 2
                    /\ Len(call.injection_readings) <= 2) =>
                       other = returned.value
        /\ WithinRoundingOfSum(returned.value.total_kwh_delivered,
                               Energies(call.consumption_readings))
        /\ WithinRoundingOfSum(returned.value.total_kwh_returned,
                               Energies(call.injection_readings))
\* 0.1, 0.2 and 0.3 kW consumed: exchanging two of them changes the total
\* in its last bit and leaves the peak at 0.3
C24_Witness ==
    /\ FromFixed
    /\ Len(call.consumption_readings) = 3
    /\ returned.value.peak_power_kw = B64OfDec7(3000000)
    /\ \E r \in Reorderings :
         \E other \in {CalculatorOfCall(r[1], r[2])} :
            /\ other.total_kwh_delivered #
                   returned.value.total_kwh_delivered
            /\ other.energy_cost # returned.value.energy_cost
            /\ other.peak_power_kw = returned.value.peak_power_kw
\* C29: for every input, peak_power_kw >= 0 and peak_power_kw >= power_kw of
\* every consumption reading (the running maximum starts at 0.0), so
\* capacity_cost is never negative, including when consumption readings are
\* negative or the stream is empty.
PowersOf(readings) == {readings[k].power_kw : k \in 1..Len(readings)}
C29_PeakBoundsReadings ==
    FromCalculator =>
        \A peak \in {returned.value.peak_power_kw} :
            /\ B64Leq(B64Zero, peak)
            /\ \A power_kw \in PowersOf(call.consumption_readings) :
                 B64Leq(power_kw, peak)
            /\ peak \in {B64Zero} \cup PowersOf(call.consumption_readings)
            /\ B64Leq(B64Zero, returned.value.capacity_cost)
\* the fixed calculator on negative readings only, and on an empty stream
\* with injection present: the peak and the capacity cost are 0.0
C29_Witness ==
    /\ FromFixed
    /\ \/ /\ Len(call.consumption_readings) = 2
          /\ \A power_kw \in PowersOf(call.consumption_readings) :
               B64Less(power_kw, B64Zero)
       \/ /\ call.consumption_readings = <<>>
          /\ call.injection_readings # <<>>
    /\ returned.value.peak_power_kw = B64Zero
    /\ returned.value.capacity_cost = B64Zero
\* C25: MonthlyCostCalculationService builds the price map from the fetched
\* price list so that, when several EpexPrice entries share a timestamp, the
\* map holds the price of the last such entry in list order, and every
\* timestamp present in the list is a key of the map.
CalculatorMethods ==
    {"EcopowerTariffCalculator.calculate_monthly_cost",
     "FixedTariffCalculator.calculate_monthly_cost"}
InvocationsOf(trace) ==
    SelectSeq(trace, LAMBDA event : event.method \in CalculatorMethods)
C25_PriceMapLastWins ==
    (FromEcoService /\ InvocationsOf(call.trace) # <<>>) =>
        LET epex_price_list == call.price_repository.prices
            epex_prices == InvocationsOf(call.trace)[1].epex_prices
        IN  /\ \A i \in DOMAIN epex_price_list :
                 /\ epex_price_list[i].timestamp \in DOMAIN epex_prices
                 /\ (\A j \in DOMAIN epex_price_list :
                        j > i => epex_price_list[j].timestamp #
                                     epex_price_list[i].timestamp)
                    => epex_prices[epex_price_list[i].timestamp] =
                           epex_price_list[i].price_eur_mwh
            /\ \A t \in DOMAIN epex_prices :
                 \E i \in DOMAIN epex_price_list :
                     epex_price_list[i].timestamp = t
\* the list holds 100 and then -50 EUR/MWh for the same quarter hour: the
\* calculator is handed -50
C25_Witness ==
    /\ FromEcoService /\ IsBreakdown
    /\ call.price_repository.prices =
           <<EpexPrice(720, F(100)), EpexPrice(720, F(-50))>>
    /\ InvocationsOf(call.trace)[1].epex_prices = (720 :> F(-50))

\* C26: within one call of MonthlyCostCalculationService.calculate_monthly_cost
\* the consumption, injection and price fetches are all issued with the
\* identical (start_date, end_date) pair, each exactly once, and the
\* calculator is invoked exactly once and only after all three fetches have
\* returned; the fixed service does the same with its two power fetches.
\* (A call in which datetime() or a fetch raises ends there: see C19, C27.)
MethodsOfService ==
    IF FromEcoService
    THEN <<"get_consumption_readings", "get_injection_readings", "get_prices">>
    ELSE <<"get_consumption_readings", "get_injection_readings">>
C26_FetchesThenCalculator ==
    FromService =>
        /\ \A j, k \in DOMAIN call.fetches :
             /\ call.fetches[j].start_date = call.fetches[k].start_date
             /\ call.fetches[j].end_date = call.fetches[k].end_date
             /\ (j # k => call.fetches[j].method # call.fetches[k].method)
        /\ Len(InvocationsOf(call.trace)) <= 1
        /\ \A k \in DOMAIN call.trace :
             call.trace[k].method \in CalculatorMethods =>
                /\ k = Len(call.trace)
                /\ [j \in 1..(k - 1) |-> call.trace[j].method] =
                       MethodsOfService
                /\ call.trace[k].consumption_readings =
                       call.power_repository.consumption_readings
                /\ call.trace[k].injection_readings =
                       call.power_repository.injection_readings
        /\ IsBreakdown =>
             /\ Len(InvocationsOf(call.trace)) = 1
             /\ Len(call.fetches) = Len(MethodsOfService)
\* each service has returned a breakdown for readings it fetched
C26_Witness ==
    /\ FromService /\ IsBreakdown
    /\ call.power_repository.consumption_readings # <<>>
    /\ Len(call.trace) = Len(MethodsOfService) + 1
    /\ call.trace[Len(call.trace)].method \in CalculatorMethods
    /\ call.trace[1].start_date = Midnight(call.year, call.month)

\* C27: if any repository fetch (consumption, injection or prices) fails,
\* the failure reaches the caller of the service's calculate_monthly_cost,
\* the calculator is never invoked for that call, no later fetch of that
\* call is issued, and no partial MonthlyCostBreakdown is returned.
RaisesOfCall ==
    IF FromEcoService
    THEN call.power_repository.raises \cup call.price_repository.raises
    ELSE call.power_repository.raises
FailedFetches ==
    {k \in DOMAIN call.trace : call.trace[k].method \in RaisesOfCall}
C27_FetchFailurePropagates ==
    FromService =>
        /\ \A k \in FailedFetches :
             /\ returned = [kind |-> "raised", exception |-> "RepositoryError"]
             /\ k = Len(call.trace)
             /\ InvocationsOf(call.trace) = <<>>
             /\ ~IsBreakdown
        /\ (FailedFetches = {} /\ call.trace # <<>>) => IsBreakdown
        /\ (RaisesOfCall # {} /\ call.trace # <<>>) => FailedFetches # {}
\* the injection fetch of the dynamic service fails, the repositories
\* holding readings and prices: two fetches issued, no price fetch
C27_Witness ==
    /\ FromEcoService
    /\ call.power_repository.raises = {"get_injection_readings"}
    /\ call.power_repository.consumption_readings # <<>>
    /\ call.price_repository.prices # <<>>
    /\ Len(call.trace) = 2
    /\ returned = [kind |-> "raised", exception |-> "RepositoryError"]
\* C28: the two streams never mix in the result: changing the injection
\* sequence leaves total_kwh_delivered, peak_power_kw, energy_cost,
\* distribution_cost, gsc_cost, wkk_cost and capacity_cost unchanged, and
\* changing the consumption sequence leaves total_kwh_returned,
\* energy_revenue and injection_cost unchanged, in both calculators.  (Each
\* call is compared with the call without the other stream: two calls that
\* differ in one stream only then agree with each other.)
ConsumptionFields ==
    {"total_kwh_delivered", "peak_power_kw", "energy_cost",
     "distribution_cost", "gsc_cost", "wkk_cost", "capacity_cost"}
InjectionFields == {"total_kwh_returned", "energy_revenue", "injection_cost"}
ExactCalculatorOfCall(consumption_readings, injection_readings, epex_prices) ==
    IF FromEco
    THEN Eco_calculate_monthly_cost(
             call.year, call.month, consumption_readings, injection_readings,
             epex_prices)
    ELSE Fixed_calculate_monthly_cost(
             call.year, call.month, consumption_readings, injection_readings)
PricesOfCall == IF FromEco THEN call.epex_prices ELSE << >>
C28_StreamsDoNotMix ==
    FromCalculator =>
        /\ \A without_injection \in
                 {ExactCalculatorOfCall(call.consumption_readings, <<>>,
                                        PricesOfCall)} :
             \A field \in ConsumptionFields :
                 without_injection[field] = returned.value[field]
        /\ \A without_consumption \in
                 {ExactCalculatorOfCall(<<>>, call.injection_readings,
                                        PricesOfCall)} :
             \A field \in InjectionFields :
                 without_consumption[field] = returned.value[field]
\* the fixed calculator with both streams present: without the injection
\* the revenue differs and the energy cost does not
C28_Witness ==
    /\ FromFixed
    /\ call.consumption_readings # <<>>
    /\ call.injection_readings # <<>>
    /\ \E without_injection \in
             {ExactCalculatorOfCall(call.consumption_readings, <<>>, << >>)} :
         /\ without_injection.energy_revenue # returned.value.energy_revenue
         /\ without_injection.total_kwh_returned #
                returned.value.total_kwh_returned
         /\ without_injection.energy_cost = returned.value.energy_cost
         /\ returned.value.energy_cost # FZero

\* C30: in the dynamic calculator the price map influences only energy_cost
\* and energy_revenue: every other field of the breakdown is the same for
\* any two price maps, and adding, removing or changing a price entry whose
\* timestamp matches no consumption and no injection reading leaves the
\* whole breakdown unchanged; the price lookup uses the reading's timestamp
\* exactly as given, without normalizing it.  (Each call is compared with
\* the call with the empty map, and with the calls with one unmatched entry
\* removed: maps that differ in unmatched entries only then agree.)
PricedFields == {"energy_cost", "energy_revenue"}
TimestampsOf(readings) == {readings[k].timestamp : k \in 1..Len(readings)}
UnmatchedEntries ==
    DOMAIN call.epex_prices \
        (TimestampsOf(call.consumption_readings)
         \cup TimestampsOf(call.injection_readings))
C30_PriceMapFrame ==
    FromEco =>
        /\ \A unpriced \in
                 {ExactCalculatorOfCall(call.consumption_readings,
                                        call.injection_readings, << >>)} :
             \A field \in DOMAIN returned.value \ PricedFields :
                 unpriced[field] = returned.value[field]
        /\ \A t \in UnmatchedEntries :
             ExactCalculatorOfCall(call.consumption_readings,
                                   call.injection_readings,
                                   Without(call.epex_prices, t))
             = returned.value
\* readings at 12:07 only and prices for 12:00 and 12:07: the price of 12:07
\* sets the energy cost, the price of 12:00 changes nothing although 12:07
\* lies in its quarter hour
C30_Witness ==
    /\ FromEco
    /\ DOMAIN call.epex_prices = {720, 727}
    /\ call.epex_prices[720] # call.epex_prices[727]
    /\ TimestampsOf(call.consumption_readings) = {727}
    /\ TimestampsOf(call.injection_readings) = {727}
    /\ UnmatchedEntries = {720}
    /\ \E unpriced \in
             {ExactCalculatorOfCall(call.consumption_readings,
                                    call.injection_readings, << >>)} :
         /\ unpriced.energy_cost # returned.value.energy_cost
         /\ unpriced.energy_revenue # returned.value.energy_revenue
=============================================================================
